---------------------------- MODULE Spec2Model ----------------------------
(***************************************************************************)
(* Seat-analysis system: the derived-data calculators (DataCalculator),    *)
(* the seat_analysis object store (IndexedDBService) and the indicator     *)
(* engine (IndicatorCalculator).                                           *)
(*                                                                         *)
(* Representation.  Strings that the code inspects character by character  *)
(* (contract codes, commodity codes, short names, seat names) are          *)
(* sequences of one-character strings.  Trade dates are 'YYYY-MM-DD'       *)
(* strings in the code; they are only tested for equality and compared     *)
(* with localeCompare, so a date is modelled by its rank (a natural        *)
(* number).  Prices are integers counting hundredths (0.01), volumes and   *)
(* open interest are integers, and arithmetic is exact.                    *)
(***************************************************************************)
EXTENDS Integers, Sequences, FiniteSets, TLC

VARIABLES
    marketData,     \* the market records handed to DataCalculator
    holdingData,    \* the raw seat holdings handed to DataCalculator
    seatData,       \* the seat summaries handed to IndicatorCalculator
    seat_analysis,  \* the seat_analysis object store: a set of rows, one per key
    inserted,       \* how many insertSeatAnalysis transactions have completed
    realLongShortData,  \* the real long/short records of each commodity
    netLongShortData,   \* the net long/short records of each commodity
    market_data,    \* the market_data object store: a set of rows, one per key
    holding_raw,    \* the holding_raw object store: rows in the order of their ids
    weighted_contracts, \* the weighted_contracts object store: one row per key
    cache,          \* a MemoryCache: its entries in insertion order, its config
    now,            \* the clock that Date.now() reads
    calls,          \* the DataAccessService calls that await the store
    status,         \* UpdateService.status
    runs,           \* the invocations of executeUpdate that have not returned
    lastCall,       \* the last operation and its arguments
    result          \* what the last operation returned

\* the state of the services behind the calculators: the other object
\* stores, the cache of DataAccessService and the state of UpdateService
serviceVars == <<market_data, holding_raw, weighted_contracts, cache, now,
                 calls, status, runs>>

vars == <<marketData, holdingData, seatData, seat_analysis, inserted,
          realLongShortData, netLongShortData, serviceVars, lastCall, result>>

-----------------------------------------------------------------------------
(* Bounds of the model *)

MaxMarket == 3
MaxHoldings == 3
MaxInserts == 1
MaxSeats == 23
MaxSeed == 8

-----------------------------------------------------------------------------
(* Numbers and strings *)

Abs(x) == IF x < 0 THEN -x ELSE x

Min(a, b) == IF a <= b THEN a ELSE b

Digits == {"0", "1", "2", "3", "4", "5", "6", "7", "8", "9"}

\* code-unit order of the characters that occur in the model
CharCode(ch) ==
    CASE ch = "0" -> 48 [] ch = "1" -> 49 [] ch = "2" -> 50 [] ch = "3" -> 51
      [] ch = "4" -> 52 [] ch = "5" -> 53 [] ch = "6" -> 54 [] ch = "7" -> 55
      [] ch = "8" -> 56 [] ch = "9" -> 57
      [] ch = "A" -> 65 [] ch = "B" -> 66 [] ch = "C" -> 67 [] ch = "D" -> 68
      [] ch = "I" -> 73 [] ch = "M" -> 77 [] ch = "S" -> 83
      [] ch = "\\uffff" -> 65535
      [] OTHER -> 90

IsNotDigit(ch) == ch \notin Digits

\* s.replace(/\d+/g, ''): every run of digits is removed
StripDigits(s) == SelectSeq(s, IsNotDigit)

\* a membership test by the contract's own commodity code
StartsWithWholeCode(s, prefix) == StripDigits(s) = prefix

\* String.prototype.startsWith
StartsWith(s, prefix) ==
    /\ Len(prefix) <= Len(s)
    /\ SubSeq(s, 1, Len(prefix)) = prefix

\* a < b in code-unit order (the order of IndexedDB string keys)
RECURSIVE StrLess(_, _)
StrLess(a, b) ==
    IF a = <<>> THEN b # <<>>
    ELSE IF b = <<>> THEN FALSE
    ELSE IF CharCode(Head(a)) # CharCode(Head(b))
         THEN CharCode(Head(a)) < CharCode(Head(b))
         ELSE StrLess(Tail(a), Tail(b))

SeqsUpTo(S, n) == UNION {[1..k -> S] : k \in 0..n}

Null == [null |-> TRUE]

-----------------------------------------------------------------------------
(* The inputs the calculators are run on *)

I2401 == <<"I", "2", "4", "0", "1">>
I2405 == <<"I", "2", "4", "0", "5">>
IC2401 == <<"I", "C", "2", "4", "0", "1">>
M2401 == <<"M", "2", "4", "0", "1">>

CommodityIds == {<<"I">>, <<"I", "C">>, <<"M">>}

TradeDates == {1, 2}

Quote(d, c, o, h, l, cl, s, v, oi) ==
    [trade_date |-> d, contract_id |-> c, secShortName |-> c,
     open |-> o, high |-> h, low |-> l, close |-> cl, settle |-> s,
     volume |-> v, open_interest |-> oi]

\* prices in hundredths: 1000 is 10.00
MarketUniverse ==
    { Quote(1, I2401, 900, 1100, 800, 1000, 1001, 5, 100),
      Quote(1, I2405, 1900, 2100, 1800, 2000, 2002, 7, 300),
      Quote(1, I2405, 1500, 1600, 1400, 1550, 1525, 4, 0),
      Quote(1, IC2401, 3000, 3300, 2900, 3100, 3105, 2, 200),
      Quote(1, M2401, 700, 750, 650, 725, 730, 1, 0),
      Quote(2, I2401, 1000, 1200, 900, 1100, 1150, 3, 700) }

Holding(d, c, seat, lv, sv, lc, sc) ==
    [trade_date |-> d, contract_id |-> c, secShortName |-> c, seat_name |-> seat,
     long_vol |-> lv, short_vol |-> sv, long_chg |-> lc, short_chg |-> sc]

HoldingUniverse ==
    { Holding(1, I2401, <<"A">>, 3, 1, 1, 0),
      Holding(1, I2405, <<"A">>, 1, 2, 0, 2),
      Holding(1, I2401, <<"B">>, 1, 3, -1, 1),
      Holding(1, I2405, <<"C">>, 5, 3, 2, 2),
      Holding(1, IC2401, <<"B">>, 4, 1, 0, -1),
      Holding(1, M2401, <<"D">>, 2, 6, 1, 3),
      Holding(2, I2401, <<"A">>, 0, 2, -3, 1) }

-----------------------------------------------------------------------------
(* Array helpers *)

RECURSIVE SumField(_, _)
\* items.reduce((sum, item) => sum + (item[f] || 0), 0), the sum being taken
\* by halves
SumField(items, f) ==
    IF items = <<>> THEN 0
    ELSE IF Len(items) = 1 THEN items[1][f]
    ELSE SumField(SubSeq(items, 1, Len(items) \div 2), f)
           + SumField(SubSeq(items, Len(items) \div 2 + 1, Len(items)), f)

RECURSIVE Distinct(_)
\* the members of a JS Set in insertion order: first occurrences only
Distinct(items) ==
    IF items = <<>> THEN <<>>
    ELSE LET rest == Distinct(SubSeq(items, 1, Len(items) - 1))
             last == items[Len(items)]
         IN  IF \E i \in 1..Len(rest) : rest[i] = last THEN rest
             ELSE Append(rest, last)

RECURSIVE Concat(_)
Concat(lists) ==
    IF lists = <<>> THEN <<>> ELSE Head(lists) \o Concat(Tail(lists))

RECURSIVE InsertBeforeEqual(_, _, _)
\* an insertion that puts index i in front of the indices of equal key
InsertBeforeEqual(sorted, i, keys) ==
    IF sorted = <<>> THEN <<i>>
    ELSE IF keys[Head(sorted)] > keys[i]
         THEN <<Head(sorted)>> \o InsertBeforeEqual(Tail(sorted), i, keys)
         ELSE <<i>> \o sorted

RECURSIVE InsertByKey(_, _, _)
\* puts index i into the index list `sorted` (keys non-increasing) behind
\* every index whose key is not smaller: equal keys keep their order
InsertByKey(sorted, i, keys) ==
    IF sorted = <<>> THEN <<i>>
    ELSE IF keys[Head(sorted)] >= keys[i]
         THEN <<Head(sorted)>> \o InsertByKey(Tail(sorted), i, keys)
         ELSE <<i>> \o sorted

\* the order in which inserting the indices 1..n one after the other leaves
\* them: of two indices, the one InsertByKey puts in front comes first
SortedIndices(n, keys) ==
    LET Precedes(i, j) ==
            IF i < j THEN InsertByKey(<<i>>, j, keys) = <<i, j>>
            ELSE InsertByKey(<<j>>, i, keys) = <<i, j>>
    IN  SortSeq([i \in 1..n |-> i], Precedes)

\* items.sort((a, b) => key(b) - key(a)), keys[i] being key(items[i]):
\* Array.prototype.sort is stable
SortDescending(items, keys) ==
    LET order == SortedIndices(Len(items), keys)
    IN  [p \in 1..Len(items) |-> items[order[p]]]

\* array.slice(0, n)
Slice0(items, n) == SubSeq(items, 1, Min(n, Len(items)))

-----------------------------------------------------------------------------
(* DataCalculator.calculateWeightedContract *)

\* a filter of the constituents that does not look at the day
IsCommodityContractAnyDay(item, commodityId, tradeDate) ==
    /\ StartsWith(item.contract_id, commodityId)
    /\ item.open_interest # 0
    /\ item.open_interest > 0

\* the filter of the constituents: same day, code starts with the commodity
\* code, open interest present and > 0
IsCommodityContract(item, commodityId, tradeDate) ==
    /\ item.trade_date = tradeDate
    /\ StartsWith(item.contract_id, commodityId)
    /\ item.open_interest # 0
    /\ item.open_interest > 0

\* a weight taken from the traded volume
WeightByVolume(item, totalOpenInterest) ==
    [num |-> item.volume, den |-> totalOpenInterest]

\* weight = open_interest / totalOpenInterest, kept as a fraction
Weight(item, totalOpenInterest) ==
    [num |-> item.open_interest, den |-> totalOpenInterest]

RECURSIVE WeightedPrice(_, _, _)
\* the accumulator field f after the reduce: the sum of item[f] * weight,
\* as the numerator over the common denominator totalOpenInterest
WeightedPrice(items, f, totalOpenInterest) ==
    IF items = <<>> THEN 0
    ELSE WeightedPrice(SubSeq(items, 1, Len(items) - 1), f, totalOpenInterest)
         + items[Len(items)][f] * Weight(items[Len(items)], totalOpenInterest).num

\* Math.round(x * 100) / 100 of x = num / den hundredths: the nearest
\* hundredth, a half rounded up
Round2(num, den) == (2 * num + den) \div (2 * den)

calculateWeightedContract(data, commodityId, tradeDate) ==
    LET IsConstituent(item) == IsCommodityContract(item, commodityId, tradeDate)
        commodityContracts == SelectSeq(data, IsConstituent)
        totalOpenInterest == SumField(commodityContracts, "open_interest")
        totalVolume == SumField(commodityContracts, "volume")
        Price(f) == Round2(WeightedPrice(commodityContracts, f, totalOpenInterest),
                           totalOpenInterest)
    IN  IF Len(commodityContracts) = 0 THEN Null
        ELSE IF totalOpenInterest = 0 THEN Null
        ELSE [trade_date |-> tradeDate,
              commodity_id |-> commodityId,
              commodity_name |-> StripDigits(commodityContracts[1].secShortName),
              open |-> Price("open"),
              high |-> Price("high"),
              low |-> Price("low"),
              close |-> Price("close"),
              settle |-> Price("settle"),
              volume |-> totalVolume,
              open_interest |-> totalOpenInterest]

\* the commodity codes of a day's records, digits stripped, empty codes
\* dropped, in the order of first occurrence
CommodityIdsOf(data, tradeDate) ==
    LET OnDate(item) == item.trade_date = tradeDate
        NonEmpty(id) == id # <<>>
        onDate == SelectSeq(data, OnDate)
        ids == [i \in 1..Len(onDate) |-> StripDigits(onDate[i].contract_id)]
    IN  Distinct(SelectSeq(ids, NonEmpty))

batchCalculateWeightedContracts(data, tradeDate) ==
    LET commodityIds == CommodityIdsOf(data, tradeDate)
        NotNull(w) == w # Null
        all == [i \in 1..Len(commodityIds) |->
                   calculateWeightedContract(data, commodityIds[i], tradeDate)]
    IN  SelectSeq(all, NotNull)

-----------------------------------------------------------------------------
(* DataCalculator.calculateSeatAnalysis *)

IsCommodityHolding(item, commodityId, tradeDate) ==
    /\ item.trade_date = tradeDate
    /\ StartsWith(item.contract_id, commodityId)

\* the new seatMap entry of a seat's first holding
NewSeatRecord(item, commodityId, tradeDate) ==
    [trade_date |-> tradeDate,
     commodity_id |-> commodityId,
     commodity_name |-> StripDigits(item.secShortName),
     seat_name |-> item.seat_name,
     long_vol |-> item.long_vol,
     short_vol |-> item.short_vol,
     long_chg |-> item.long_chg,
     short_chg |-> item.short_chg,
     net_vol |-> 0,
     net_chg |-> 0]

\* a further holding that replaces the seat's volumes
AccumulateOverwrite(existing, item) ==
    [existing EXCEPT !.long_vol = item.long_vol,
                     !.short_vol = item.short_vol,
                     !.long_chg = @ + item.long_chg,
                     !.short_chg = @ + item.short_chg]

\* a further holding of a seat is added to the seat's entry
Accumulate(existing, item) ==
    [existing EXCEPT !.long_vol = @ + item.long_vol,
                     !.short_vol = @ + item.short_vol,
                     !.long_chg = @ + item.long_chg,
                     !.short_chg = @ + item.short_chg]

RECURSIVE SeatMap(_, _, _)
\* the values of seatMap (a Map: insertion order) after the forEach
SeatMap(holdings, commodityId, tradeDate) ==
    IF holdings = <<>> THEN <<>>
    ELSE LET map == SeatMap(SubSeq(holdings, 1, Len(holdings) - 1),
                            commodityId, tradeDate)
             item == holdings[Len(holdings)]
         IN  IF \E i \in 1..Len(map) : map[i].seat_name = item.seat_name
             THEN [i \in 1..Len(map) |->
                      IF map[i].seat_name = item.seat_name
                      THEN Accumulate(map[i], item) ELSE map[i]]
             ELSE Append(map, NewSeatRecord(item, commodityId, tradeDate))

\* the derived fields left as the seatMap entry was created
WithNetUnset(item) == item

\* the derived fields: net_vol and net_chg
WithNet(item) ==
    [item EXCEPT !.net_vol = item.long_vol - item.short_vol,
                 !.net_chg = item.long_chg - item.short_chg]

calculateSeatAnalysis(data, commodityId, tradeDate) ==
    LET IsMember(item) == IsCommodityHolding(item, commodityId, tradeDate)
        commodityHoldings == SelectSeq(data, IsMember)
        map == SeatMap(commodityHoldings, commodityId, tradeDate)
        rows == [i \in 1..Len(map) |-> WithNet(map[i])]
        keys == [i \in 1..Len(rows) |-> Abs(rows[i].net_vol)]
    IN  IF Len(commodityHoldings) = 0 THEN <<>>
        ELSE SortDescending(rows, keys)

batchCalculateSeatAnalysis(data, tradeDate) ==
    LET commodityIds == CommodityIdsOf(data, tradeDate)
    IN  Concat([i \in 1..Len(commodityIds) |->
                   calculateSeatAnalysis(data, commodityIds[i], tradeDate)])

-----------------------------------------------------------------------------
(* IndexedDBService: the seat_analysis object store *)

\* keyPath ['trade_date', 'commodity_id', 'seat_name']
KeyOf(row) == <<row.trade_date, row.commodity_id, row.seat_name>>

\* the order of the keys of the store
KeyLess(a, b) ==
    \/ a[1] < b[1]
    \/ a[1] = b[1] /\ StrLess(a[2], b[2])
    \/ a[1] = b[1] /\ a[2] = b[2] /\ StrLess(a[3], b[3])

\* store.put(row): insert, or replace the row of the same key
Put(store, row) == {r \in store : KeyOf(r) # KeyOf(row)} \cup {row}

\* the record that insertSeatAnalysis writes for a record it is given
recordWithCalculatedFields(record) ==
    [record EXCEPT !.net_vol = record.long_vol - record.short_vol,
                   !.net_chg = record.long_chg - record.short_chg]

RECURSIVE insertSeatAnalysis(_, _)
\* one readwrite transaction that puts every record
insertSeatAnalysis(store, records) ==
    IF records = <<>> THEN store
    ELSE insertSeatAnalysis(Put(store, recordWithCalculatedFields(Head(records))),
                            Tail(records))

RECURSIVE InKeyOrder(_)
\* store.getAll(): the rows in key order
InKeyOrder(store) ==
    IF store = {} THEN <<>>
    ELSE LET first == CHOOSE r \in store :
                          \A o \in store \ {r} : KeyLess(KeyOf(r), KeyOf(o))
         IN  <<first>> \o InKeyOrder(store \ {first})

\* the greatest seat name of the exact query's key range
UFFFF == <<"\\uffff">>

\* the rows the request of getSeatAnalysis selects; an absent parameter is
\* falsy: the empty string, date 0, limit 0
Requested(store, params) ==
    LET InRange(r) ==
            /\ r.trade_date = params.tradeDate
            /\ r.commodity_id = params.commodityId
            /\ ~ StrLess(UFFFF, r.seat_name)
        OnDate(r) == r.trade_date = params.tradeDate
        OfCommodity(r) == r.commodity_id = params.commodityId
        all == InKeyOrder(store)
    IN  IF params.commodityId # <<>> /\ params.tradeDate # 0
        THEN SelectSeq(all, InRange)
        ELSE IF params.tradeDate # 0 THEN SelectSeq(all, OnDate)
        ELSE IF params.commodityId # <<>> THEN SelectSeq(all, OfCommodity)
        ELSE all

\* the derived fields as getSeatAnalysis recomputes them on every read
processedData(item) ==
    [item EXCEPT !.net_vol = item.long_vol - item.short_vol,
                 !.net_chg = item.long_chg - item.short_chg]

getSeatAnalysis(store, params) ==
    LET IsSeat(r) == r.seat_name = params.seatName
        FromBegin(r) == r.trade_date >= params.beginDate
        ToEnd(r) == r.trade_date <= params.endDate
        d0 == Requested(store, params)
        d1 == IF params.seatName # <<>> THEN SelectSeq(d0, IsSeat) ELSE d0
        d2 == IF params.beginDate # 0 THEN SelectSeq(d1, FromBegin) ELSE d1
        d3 == IF params.endDate # 0 THEN SelectSeq(d2, ToEnd) ELSE d2
        d4 == IF params.limit # 0 /\ params.limit > 0
              THEN Slice0(d3, params.limit) ELSE d3
    IN  [i \in 1..Len(d4) |-> processedData(d4[i])]

-----------------------------------------------------------------------------
(* The calls made on the calculators and on the store *)

Params(c, d, seat, b, e, n) ==
    [commodityId |-> c, tradeDate |-> d, seatName |-> seat,
     beginDate |-> b, endDate |-> e, limit |-> n]

QueryParams ==
    { Params(<<"I">>, 1, <<>>, 0, 0, 0),
      Params(<<>>, 1, <<>>, 0, 0, 1),
      Params(<<"I">>, 0, <<"B">>, 0, 0, 0),
      Params(<<>>, 0, <<>>, 2, 0, 0),
      Params(<<>>, 0, <<>>, 0, 1, 0) }

SeatRow(d, c, seat, lv, sv, lc, sc, nv, nc) ==
    [trade_date |-> d, commodity_id |-> c, commodity_name |-> c, seat_name |-> seat,
     long_vol |-> lv, short_vol |-> sv, long_chg |-> lc, short_chg |-> sc,
     net_vol |-> nv, net_chg |-> nc]

\* records a caller of the store hands to insertSeatAnalysis itself; their
\* net fields need not agree with the volumes
CallerRecords ==
    { << SeatRow(1, <<"I">>, <<"A">>, 7, 2, 1, 3, 0, 9),
         SeatRow(2, <<"I">>, <<"B">>, 1, 4, 2, 0, 5, 2) >> }

NoCall == [op |-> "none"]

\* the configuration a MemoryCache is constructed with by default: five
\* minutes in milliseconds, a thousand entries
DefaultCacheConfig == [ttl |-> 5 * 60 * 1000, maxSize |-> 1000]

\* new MemoryCache(config): no entry
NewMemoryCache(config) == [cache |-> <<>>, config |-> config]

\* UpdateService.status as the constructor leaves it
InitialStatus ==
    [isRunning |-> FALSE, lastUpdate |-> Null, error |-> Null, completed |-> 0]

\* empty stores, an empty cache, no read in flight and no update running
InitServices ==
    /\ market_data = {}
    /\ holding_raw = <<>>
    /\ weighted_contracts = {}
    /\ cache = NewMemoryCache(DefaultCacheConfig)
    /\ now = 0
    /\ calls = <<>>
    /\ status = InitialStatus
    /\ runs = <<>>

InitCommon ==
    /\ InitServices
    /\ seat_analysis = {}
    /\ inserted = 0
    /\ realLongShortData = <<>>
    /\ netLongShortData = <<>>
    /\ lastCall = NoCall
    /\ result = <<>>

Init ==
    /\ InitCommon
    /\ seatData = <<>>
    /\ \/ /\ marketData \in SeqsUpTo(MarketUniverse, MaxMarket)
          /\ holdingData = <<>>
       \/ /\ marketData = <<>>
          /\ holdingData \in SeqsUpTo(HoldingUniverse, MaxHoldings)

CalculateWeightedContract(c, d) ==
    /\ marketData # <<>>
    /\ result' = calculateWeightedContract(marketData, c, d)
    /\ lastCall' = [op |-> "calculateWeightedContract", commodityId |-> c, tradeDate |-> d]
    /\ UNCHANGED <<marketData, holdingData, seatData, seat_analysis, inserted,
                 realLongShortData, netLongShortData, serviceVars>>

BatchCalculateWeightedContracts(d) ==
    /\ marketData # <<>>
    /\ result' = batchCalculateWeightedContracts(marketData, d)
    /\ lastCall' = [op |-> "batchCalculateWeightedContracts", tradeDate |-> d]
    /\ UNCHANGED <<marketData, holdingData, seatData, seat_analysis, inserted,
                 realLongShortData, netLongShortData, serviceVars>>

CalculateSeatAnalysis(c, d) ==
    /\ holdingData # <<>>
    /\ result' = calculateSeatAnalysis(holdingData, c, d)
    /\ lastCall' = [op |-> "calculateSeatAnalysis", commodityId |-> c, tradeDate |-> d]
    /\ UNCHANGED <<marketData, holdingData, seatData, seat_analysis, inserted,
                 realLongShortData, netLongShortData, serviceVars>>

BatchCalculateSeatAnalysis(d) ==
    /\ holdingData # <<>>
    /\ result' = batchCalculateSeatAnalysis(holdingData, d)
    /\ lastCall' = [op |-> "batchCalculateSeatAnalysis", tradeDate |-> d]
    /\ UNCHANGED <<marketData, holdingData, seatData, seat_analysis, inserted,
                 realLongShortData, netLongShortData, serviceVars>>

\* insertSeatAnalysis with the rows calculated for a day (as processRawData
\* does), or with records of the caller's own
InsertSeatAnalysis ==
    /\ holdingData # <<>>
    /\ inserted < MaxInserts
    /\ \E records \in {batchCalculateSeatAnalysis(holdingData, d) : d \in TradeDates}
                        \cup CallerRecords :
          /\ seat_analysis' = insertSeatAnalysis(seat_analysis, records)
          /\ result' = Cardinality({KeyOf(r) : r \in {records[i] : i \in 1..Len(records)}})
          /\ lastCall' = [op |-> "insertSeatAnalysis", records |-> records]
    /\ inserted' = inserted + 1
    /\ UNCHANGED <<marketData, holdingData, seatData, realLongShortData, netLongShortData, serviceVars>>

GetSeatAnalysis(params) ==
    /\ holdingData # <<>>
    /\ result' = getSeatAnalysis(seat_analysis, params)
    /\ lastCall' = [op |-> "getSeatAnalysis", params |-> params]
    /\ UNCHANGED <<marketData, holdingData, seatData, seat_analysis, inserted,
                 realLongShortData, netLongShortData, serviceVars>>

Next ==
    \/ \E c \in CommodityIds, d \in TradeDates : CalculateWeightedContract(c, d)
    \/ \E d \in TradeDates : BatchCalculateWeightedContracts(d)
    \/ \E c \in CommodityIds, d \in TradeDates : CalculateSeatAnalysis(c, d)
    \/ \E d \in TradeDates : BatchCalculateSeatAnalysis(d)
    \/ InsertSeatAnalysis
    \/ \E params \in QueryParams : GetSeatAnalysis(params)

Spec == Init /\ [][Next]_vars

-----------------------------------------------------------------------------
(* What the properties are stated with *)

RECURSIVE SumOver(_, _)
\* the sum of f[x] over the x of the set S
SumOver(S, f) ==
    IF S = {} THEN 0
    ELSE LET x == CHOOSE x \in S : TRUE
         IN  f[x] + SumOver(S \ {x}, f)

\* the contract code s begins with the code p
HasPrefix(s, p) ==
    /\ Len(p) <= Len(s)
    /\ \A k \in 1..Len(p) : s[k] = p[k]

Called(op) == lastCall.op = op

RowsOf(rows) == {rows[i] : i \in 1..Len(rows)}

NetConsistent(row) ==
    /\ row.net_vol = row.long_vol - row.short_vol
    /\ row.net_chg = row.long_chg - row.short_chg

\* the holdings of the input that belong to commodity c on day d
MatchingHoldings(c, d) ==
    {i \in 1..Len(holdingData) :
        /\ holdingData[i].trade_date = d
        /\ HasPrefix(holdingData[i].contract_id, c)}

HoldingField(f) == [i \in 1..Len(holdingData) |-> holdingData[i][f]]

SeatHoldings(M, seat) == {i \in M : holdingData[i].seat_name = seat}

\* the first holding of a seat among the holdings M
FirstHolding(M, seat) ==
    CHOOSE i \in SeatHoldings(M, seat) : \A j \in SeatHoldings(M, seat) : i <= j

\* the market records of commodity c on day d with open interest > 0
Qualifying(c, d) ==
    {i \in 1..Len(marketData) :
        /\ marketData[i].trade_date = d
        /\ HasPrefix(marketData[i].contract_id, c)
        /\ marketData[i].open_interest > 0}

MarketField(f) == [i \in 1..Len(marketData) |-> marketData[i][f]]

TotalOI(Q) == SumOver(Q, MarketField("open_interest"))

\* the sum over Q of price * open interest
PriceTimesOI(Q, f) ==
    SumOver(Q, [i \in 1..Len(marketData) |->
                   marketData[i][f] * marketData[i].open_interest])

\* r is num / den rounded to the nearest integer, a half rounded up
IsRounded(r, num, den) ==
    /\ 2 * (r * den - num) <= den
    /\ 2 * (r * den - num) > -den

PriceFields == {"open", "high", "low", "close", "settle"}

-----------------------------------------------------------------------------
(* C1: every seat-summary row returned by calculateSeatAnalysis (also in a *)
(* batch), every row written by insertSeatAnalysis and every row returned  *)
(* by getSeatAnalysis has net_vol = long_vol - short_vol and               *)
(* net_chg = long_chg - short_chg.                                         *)
C1_NetFieldsExact ==
    /\ (Called("calculateSeatAnalysis") \/ Called("batchCalculateSeatAnalysis")
          \/ Called("getSeatAnalysis"))
         => \A row \in RowsOf(result) : NetConsistent(row)
    /\ \A row \in seat_analysis : NetConsistent(row)

\* a seat with holdings in two contracts of the commodity was calculated,
\* written and read back
C1_Witness ==
    /\ Called("getSeatAnalysis")
    /\ \E row \in RowsOf(result) :
          /\ row.seat_name = <<"A">>
          /\ row.commodity_id = <<"I">>
          /\ row.long_vol = 4
          /\ row.short_vol = 3
          /\ row.net_vol = 1

(* C2: with at least one qualifying record (open_interest > 0) of the day  *)
(* and commodity, calculateWeightedContract returns, for each of open,     *)
(* high, low, close and settle, the sum over exactly the qualifying        *)
(* records of price * oi / (sum of oi) rounded to 2 decimals; the weights  *)
(* oi / (sum of oi) sum to 1; A(oi=100, close=10) and B(oi=300, close=20)  *)
(* give the weighted close 17.5.                                           *)
C2_WeightedPrices ==
    Called("calculateWeightedContract") =>
        LET Q == Qualifying(lastCall.commodityId, lastCall.tradeDate)
        IN  Q # {} =>
              /\ result # Null
              /\ result.open_interest = TotalOI(Q)
              /\ TotalOI(Q) > 0
              /\ \A f \in PriceFields :
                    IsRounded(result[f], PriceTimesOI(Q, f), TotalOI(Q))
              /\ ({<<marketData[i].open_interest, marketData[i].close>> : i \in Q}
                     = {<<100, 1000>>, <<300, 2000>>} /\ Cardinality(Q) = 2)
                   => result.close = 1750

\* the example: 0.25 * 10 + 0.75 * 20 = 17.5, and a case that is rounded
C2_Witness ==
    /\ Called("calculateWeightedContract")
    /\ Cardinality(Qualifying(lastCall.commodityId, lastCall.tradeDate)) = 2
    /\ result # Null
    /\ result.close = 1750
    /\ result.open_interest = 400

(* C3: calculateWeightedContract returns null when no record of the day    *)
(* and commodity has open_interest > 0 or the total open interest is 0,    *)
(* and batchCalculateWeightedContracts emits no row for such a commodity.  *)
C3_NoQualifyingData ==
    /\ Called("calculateWeightedContract") =>
          LET Q == Qualifying(lastCall.commodityId, lastCall.tradeDate)
          IN  (Q = {} \/ TotalOI(Q) = 0) => result = Null
    /\ Called("batchCalculateWeightedContracts") =>
          \A row \in RowsOf(result) :
              LET Q == Qualifying(row.commodity_id, lastCall.tradeDate)
              IN  Q # {} /\ TotalOI(Q) # 0

\* the commodity has records on the day, none with open interest, and the
\* calculation returned null
C3_Witness ==
    /\ Called("calculateWeightedContract")
    /\ result = Null
    /\ \E i \in 1..Len(marketData) :
          /\ marketData[i].trade_date = lastCall.tradeDate
          /\ HasPrefix(marketData[i].contract_id, lastCall.commodityId)
          /\ marketData[i].open_interest = 0

(* C4: calculateSeatAnalysis returns exactly one row per distinct seat     *)
(* among the matching holdings, and the row's long_vol, short_vol,         *)
(* long_chg and short_chg are the sums of that field over all matching     *)
(* holdings of the seat.                                                   *)
C4_OneRowPerSeat ==
    Called("calculateSeatAnalysis") =>
        LET M == MatchingHoldings(lastCall.commodityId, lastCall.tradeDate)
            seats == {holdingData[i].seat_name : i \in M}
        IN  /\ Len(result) = Cardinality(seats)
            /\ \A seat \in seats :
                  \E k \in 1..Len(result) :
                      /\ result[k].seat_name = seat
                      /\ \A f \in {"long_vol", "short_vol", "long_chg", "short_chg"} :
                            result[k][f] = SumOver(SeatHoldings(M, seat), HoldingField(f))

\* two holdings of one seat were summed into one row beside another seat's row
C4_Witness ==
    /\ Called("calculateSeatAnalysis")
    /\ Len(result) = 2
    /\ Cardinality(MatchingHoldings(lastCall.commodityId, lastCall.tradeDate)) = 3

(* C5: the rows of calculateSeatAnalysis are ordered by |net_vol|          *)
(* non-increasing, and two seats of equal |net_vol| are in the order in    *)
(* which the seats first occur in the input holdings.                      *)
C5_StableOrder ==
    Called("calculateSeatAnalysis") =>
        LET M == MatchingHoldings(lastCall.commodityId, lastCall.tradeDate)
        IN  \A i, j \in 1..Len(result) :
                i < j =>
                  /\ Abs(result[i].net_vol) >= Abs(result[j].net_vol)
                  /\ Abs(result[i].net_vol) = Abs(result[j].net_vol)
                       => FirstHolding(M, result[i].seat_name)
                            < FirstHolding(M, result[j].seat_name)

\* three seats, two of them tied, and a larger one that came last in the input
C5_Witness ==
    /\ Called("calculateSeatAnalysis")
    /\ Len(result) = 3
    /\ Abs(result[2].net_vol) = Abs(result[3].net_vol)
    /\ Abs(result[1].net_vol) > Abs(result[2].net_vol)
    /\ holdingData[3].seat_name = result[1].seat_name

(* C6: membership in a commodity is decided by contract-code prefix, in    *)
(* the aggregator and in the synthesizer: the records counted for          *)
(* commodity C are exactly those whose contract code starts with C, so a   *)
(* record of IC2401 counts for I as well as for IC, and in                 *)
(* batchCalculateSeatAnalysis one holding can contribute to the rows of    *)
(* more than one commodity.                                                *)
C6_PrefixMembership ==
    /\ Called("calculateSeatAnalysis") =>
          LET M == MatchingHoldings(lastCall.commodityId, lastCall.tradeDate)
          IN  \A f \in {"long_vol", "short_vol"} :
                 SumOver(1..Len(result), [k \in 1..Len(result) |-> result[k][f]])
                   = SumOver(M, HoldingField(f))
    /\ Called("batchCalculateSeatAnalysis") =>
          \A c \in {row.commodity_id : row \in RowsOf(result)} :
              LET M == MatchingHoldings(c, lastCall.tradeDate)
                  K == {k \in 1..Len(result) : result[k].commodity_id = c}
              IN  \A f \in {"long_vol", "short_vol"} :
                     SumOver(K, [k \in 1..Len(result) |-> result[k][f]])
                       = SumOver(M, HoldingField(f))
    /\ Called("calculateWeightedContract") =>
          LET Q == Qualifying(lastCall.commodityId, lastCall.tradeDate)
          IN  IF Q = {} THEN result = Null
              ELSE /\ result # Null
                   /\ result.volume = SumOver(Q, MarketField("volume"))
                   /\ result.open_interest = SumOver(Q, MarketField("open_interest"))

\* the IC2401 holding of seat B is part of B's row for I and of B's row for IC
C6_Witness ==
    /\ Called("batchCalculateSeatAnalysis")
    /\ \E i \in 1..Len(holdingData) : holdingData[i].contract_id = IC2401
    /\ \E r1, r2 \in RowsOf(result) :
          /\ r1.seat_name = <<"B">> /\ r1.commodity_id = <<"I">> /\ r1.long_vol = 5
          /\ r2.seat_name = <<"B">> /\ r2.commodity_id = <<"I", "C">> /\ r2.long_vol = 4

-----------------------------------------------------------------------------
(* IndicatorCalculator: real, net and flow long-short *)

Breadths == {"10", "20", "all"}

\* the n of calculateForTopN(10) and calculateForTopN(20)
BreadthCount(breadth) == CASE breadth = "10" -> 10 [] breadth = "20" -> 20

\* n === 'all' ? items : items.slice(0, n)
Selected(items, breadth) ==
    IF breadth = "all" THEN items ELSE Slice0(items, BreadthCount(breadth))

\* the keys of dateGroups (a Map: insertion order)
GroupDates(data) ==
    Distinct([i \in 1..Len(data) |-> data[i].trade_date])

\* dateGroups.get(tradeDate)
DayData(data, tradeDate) ==
    LET OnDate(item) == item.trade_date = tradeDate
    IN  SelectSeq(data, OnDate)

\* results.sort((a, b) => a.trade_date.localeCompare(b.trade_date))
SortByDate(results) ==
    SortDescending(results, [i \in 1..Len(results) |-> -results[i].trade_date])

\* a pool with the long volume of every seat only
combinedLongOnly(dayData) ==
    [k \in 1..Len(dayData) |->
        [seat_name |-> dayData[k].seat_name, volume |-> dayData[k].long_vol,
         type |-> "long", net_vol |-> dayData[k].net_vol]]

\* combinedVolumes before the sort: the long volume and the short volume
\* of every seat as two entries
combinedVolumes(dayData) ==
    [k \in 1..2 * Len(dayData) |->
        LET seat == dayData[(k + 1) \div 2]
        IN  IF k % 2 = 1
            THEN [seat_name |-> seat.seat_name, volume |-> seat.long_vol,
                  type |-> "long", net_vol |-> seat.net_vol]
            ELSE [seat_name |-> seat.seat_name, volume |-> seat.short_vol,
                  type |-> "short", net_vol |-> seat.net_vol]]

RECURSIVE MapSet(_, _, _)
\* map.set(key, value) on a Map kept as a list of entries in insertion order
MapSet(map, key, value) ==
    IF map = <<>> THEN << [key |-> key, value |-> value] >>
    ELSE IF Head(map).key = key
         THEN << [key |-> key, value |-> value] >> \o Tail(map)
         ELSE << Head(map) >> \o MapSet(Tail(map), key, value)

RECURSIVE seatNetPositions(_, _)
\* the Map from the involved seats to their net_vol
seatNetPositions(dayData, involvedSeats) ==
    IF dayData = <<>> THEN <<>>
    ELSE LET map == seatNetPositions(SubSeq(dayData, 1, Len(dayData) - 1), involvedSeats)
             seat == dayData[Len(dayData)]
         IN  IF seat.seat_name \in involvedSeats
             THEN MapSet(map, seat.seat_name, seat.net_vol)
             ELSE map

RECURSIVE SumPositive(_)
\* the loop over the Map: netVol > 0 is added to realLong
SumPositive(entries) ==
    IF entries = <<>> THEN 0
    ELSE (IF Head(entries).value > 0 THEN Head(entries).value ELSE 0)
         + SumPositive(Tail(entries))

RECURSIVE SumNegativeAbs(_)
\* the loop over the Map: Math.abs(netVol) of netVol < 0 is added to realShort
SumNegativeAbs(entries) ==
    IF entries = <<>> THEN 0
    ELSE (IF Head(entries).value < 0 THEN Abs(Head(entries).value) ELSE 0)
         + SumNegativeAbs(Tail(entries))

\* calculateForTopN of calculateRealLongShort
RealForTopN(dayData, sortedVolumes, breadth) ==
    LET selectedItems == Selected(sortedVolumes, breadth)
        involvedSeats == {selectedItems[k].seat_name : k \in 1..Len(selectedItems)}
        positions == seatNetPositions(dayData, involvedSeats)
        realLong == SumPositive(positions)
        realShort == SumNegativeAbs(positions)
    IN  [realLong |-> realLong, realShort |-> realShort,
         realDiff |-> realLong - realShort]

RealOfDay(data, tradeDate) ==
    LET dayData == DayData(data, tradeDate)
        pool == combinedVolumes(dayData)
        sortedVolumes == SortDescending(pool, [k \in 1..Len(pool) |-> pool[k].volume])
        result10 == RealForTopN(dayData, sortedVolumes, "10")
        result20 == RealForTopN(dayData, sortedVolumes, "20")
        resultAll == RealForTopN(dayData, sortedVolumes, "all")
    IN  [trade_date |-> tradeDate,
         real_long_10 |-> result10.realLong,
         real_long_20 |-> result20.realLong,
         real_long_all |-> resultAll.realLong,
         real_short_10 |-> result10.realShort,
         real_short_20 |-> result20.realShort,
         real_short_all |-> resultAll.realShort,
         real_diff_10 |-> result10.realDiff,
         real_diff_20 |-> result20.realDiff,
         real_diff_all |-> resultAll.realDiff]

calculateRealLongShort(data) ==
    LET dates == GroupDates(data)
    IN  SortByDate([g \in 1..Len(dates) |-> RealOfDay(data, dates[g])])

\* a ranking by the signed net_vol
SignedNetKeys(dayData) == [k \in 1..Len(dayData) |-> dayData[k].net_vol]

\* the sort key of the seats: Math.abs(net_vol)
AbsNetKeys(dayData) == [k \in 1..Len(dayData) |-> Abs(dayData[k].net_vol)]

\* [...dayData].sort((a, b) => Math.abs(b.net_vol) - Math.abs(a.net_vol))
sortedSeats(dayData) == SortDescending(dayData, AbsNetKeys(dayData))

\* calculateForTopN of calculateNetLongShort
NetForTopN(sorted, breadth) ==
    LET selectedSeats == Selected(sorted, breadth)
        IsLong(seat) == seat.net_vol > 0
        IsShort(seat) == seat.net_vol < 0
        netLong == SumField(SelectSeq(selectedSeats, IsLong), "net_vol")
        netShort == Abs(SumField(SelectSeq(selectedSeats, IsShort), "net_vol"))
    IN  [netLong |-> netLong, netShort |-> netShort, netDiff |-> netLong - netShort]

NetOfDay(data, tradeDate) ==
    LET sorted == sortedSeats(DayData(data, tradeDate))
        result10 == NetForTopN(sorted, "10")
        result20 == NetForTopN(sorted, "20")
        resultAll == NetForTopN(sorted, "all")
    IN  [trade_date |-> tradeDate,
         net_long_10 |-> result10.netLong,
         net_long_20 |-> result20.netLong,
         net_long_all |-> resultAll.netLong,
         net_short_10 |-> result10.netShort,
         net_short_20 |-> result20.netShort,
         net_short_all |-> resultAll.netShort,
         net_diff_10 |-> result10.netDiff,
         net_diff_20 |-> result20.netDiff,
         net_diff_all |-> resultAll.netDiff]

calculateNetLongShort(data) ==
    LET dates == GroupDates(data)
    IN  SortByDate([g \in 1..Len(dates) |-> NetOfDay(data, dates[g])])

\* an addLong that also takes the seats whose net_chg is 0
addLongWithUnchanged(selectedSeats) ==
    LET Adds(seat) == seat.net_vol > 0 /\ seat.net_chg >= 0
    IN  SumField(SelectSeq(selectedSeats, Adds), "net_vol")

addLong(selectedSeats) ==
    LET Adds(seat) == seat.net_vol > 0 /\ seat.net_chg > 0
    IN  SumField(SelectSeq(selectedSeats, Adds), "net_vol")

addShort(selectedSeats) ==
    LET Adds(seat) == seat.net_vol < 0 /\ seat.net_chg < 0
    IN  Abs(SumField(SelectSeq(selectedSeats, Adds), "net_vol"))

\* a reduceLong that is not negated
reduceLongUnsigned(selectedSeats) ==
    LET Reduces(seat) == seat.net_vol > 0 /\ seat.net_chg < 0
    IN  SumField(SelectSeq(selectedSeats, Reduces), "net_vol")

reduceLong(selectedSeats) ==
    LET Reduces(seat) == seat.net_vol > 0 /\ seat.net_chg < 0
    IN  -SumField(SelectSeq(selectedSeats, Reduces), "net_vol")

reduceShort(selectedSeats) ==
    LET Reduces(seat) == seat.net_vol < 0 /\ seat.net_chg > 0
    IN  SumField(SelectSeq(selectedSeats, Reduces), "net_vol")

\* calculateForTopN of calculateFlowLongShort
FlowForTopN(sorted, breadth) ==
    LET selectedSeats == Selected(sorted, breadth)
    IN  [addLong |-> addLong(selectedSeats),
         addShort |-> addShort(selectedSeats),
         reduceLong |-> reduceLong(selectedSeats),
         reduceShort |-> reduceShort(selectedSeats)]

FlowOfDay(data, tradeDate) ==
    LET sorted == sortedSeats(DayData(data, tradeDate))
        result10 == FlowForTopN(sorted, "10")
        result20 == FlowForTopN(sorted, "20")
        resultAll == FlowForTopN(sorted, "all")
    IN  [trade_date |-> tradeDate,
         add_long_10 |-> result10.addLong,
         add_long_20 |-> result20.addLong,
         add_long_all |-> resultAll.addLong,
         add_short_10 |-> result10.addShort,
         add_short_20 |-> result20.addShort,
         add_short_all |-> resultAll.addShort,
         reduce_long_10 |-> result10.reduceLong,
         reduce_long_20 |-> result20.reduceLong,
         reduce_long_all |-> resultAll.reduceLong,
         reduce_short_10 |-> result10.reduceShort,
         reduce_short_20 |-> result20.reduceShort,
         reduce_short_all |-> resultAll.reduceShort]

calculateFlowLongShort(data) ==
    LET dates == GroupDates(data)
    IN  SortByDate([g \in 1..Len(dates) |-> FlowOfDay(data, dates[g])])

-----------------------------------------------------------------------------
(* The seat summaries the indicator engine is run on: one commodity, every *)
(* (date, seat) at most once, net fields as the store returns them         *)

DigitChar(n) ==
    CASE n = 0 -> "0" [] n = 1 -> "1" [] n = 2 -> "2" [] n = 3 -> "3" [] n = 4 -> "4"
      [] n = 5 -> "5" [] n = 6 -> "6" [] n = 7 -> "7" [] n = 8 -> "8" [] n = 9 -> "9"

SeatName(i) == <<"S", DigitChar((i \div 10) % 10), DigitChar(i % 10)>>

Summary(d, seat, lv, sv, lc, sc) ==
    SeatRow(d, <<"I">>, seat, lv, sv, lc, sc, lv - sv, lc - sc)

\* the i-th seat of the series of seed k: small volumes, so that ties are
\* frequent; the first k % 3 seats are of the later day
SeriesRow(i, k) ==
    Summary(IF i <= k % 3 THEN 2 ELSE 1,
            SeatName(i),
            (i * (2 * k + 1)) % 9,
            (i * i + k) % 7,
            (i * k) % 4,
            (i + 2 * k) % 3)

Series(n, k) == [i \in 1..n |-> SeriesRow(i, k)]

\* S1(net = +50, chg = +5), S2(net = -30, chg = -2), S3(net = +20, chg = -1)
ExampleSeats ==
    << Summary(1, SeatName(1), 50, 0, 5, 0),
       Summary(1, SeatName(2), 0, 30, 0, 2),
       Summary(1, SeatName(3), 20, 0, 0, 1) >>

SeatInputs ==
    {Series(n, k) : n \in 0..MaxSeats, k \in 1..MaxSeed} \cup {ExampleSeats}

InitIndicator ==
    /\ InitCommon
    /\ marketData = <<>>
    /\ holdingData = <<>>
    /\ seatData \in SeatInputs

CalculateRealLongShort ==
    /\ result' = calculateRealLongShort(seatData)
    /\ lastCall' = [op |-> "calculateRealLongShort"]
    /\ UNCHANGED <<marketData, holdingData, seatData, seat_analysis, inserted,
                 realLongShortData, netLongShortData, serviceVars>>

CalculateNetLongShort ==
    /\ result' = calculateNetLongShort(seatData)
    /\ lastCall' = [op |-> "calculateNetLongShort"]
    /\ UNCHANGED <<marketData, holdingData, seatData, seat_analysis, inserted,
                 realLongShortData, netLongShortData, serviceVars>>

CalculateFlowLongShort ==
    /\ result' = calculateFlowLongShort(seatData)
    /\ lastCall' = [op |-> "calculateFlowLongShort"]
    /\ UNCHANGED <<marketData, holdingData, seatData, seat_analysis, inserted,
                 realLongShortData, netLongShortData, serviceVars>>

NextIndicator ==
    \/ CalculateRealLongShort
    \/ CalculateNetLongShort
    \/ CalculateFlowLongShort

SpecIndicator == InitIndicator /\ [][NextIndicator]_vars

-----------------------------------------------------------------------------
(* What the indicator properties are stated with *)

Pick(breadth, f10, f20, fAll) ==
    CASE breadth = "10" -> f10 [] breadth = "20" -> f20 [] breadth = "all" -> fAll

DatesOfInput == {seatData[i].trade_date : i \in 1..Len(seatData)}

\* the seats of a day, as positions in the input
DayIndices(d) == {i \in 1..Len(seatData) : seatData[i].trade_date = d}

NetVol == [i \in 1..Len(seatData) |-> seatData[i].net_vol]

NegNetVol == [i \in 1..Len(seatData) |-> -seatData[i].net_vol]

\* the first n of a ranking are those with fewer than n members ahead
WithinBreadth(ahead, breadth) ==
    \/ breadth = "all"
    \/ breadth = "10" /\ ahead < 10
    \/ breadth = "20" /\ ahead < 20

\* the pool of a day: every seat's long volume and short volume
PoolEntries(d) == DayIndices(d) \X {"long", "short"}

EntryVolume(e) ==
    IF e[2] = "long" THEN seatData[e[1]].long_vol ELSE seatData[e[1]].short_vol

\* the place of an entry in the pool before it is sorted
EntryPlace(e) == IF e[2] = "long" THEN 2 * e[1] - 1 ELSE 2 * e[1]

\* a comes before b in the pool sorted by volume descending, stably
EntryAhead(a, b) ==
    \/ EntryVolume(a) > EntryVolume(b)
    \/ EntryVolume(a) = EntryVolume(b) /\ EntryPlace(a) < EntryPlace(b)

\* the seats (positions) with an entry among the first N of the sorted pool
RealSeats(d, breadth) ==
    {e[1] : e \in {x \in PoolEntries(d) :
                     WithinBreadth(Cardinality({a \in PoolEntries(d) : EntryAhead(a, x)}),
                                   breadth)}}

\* seat i comes before seat j in the day's seats sorted by |net_vol|
\* descending, stably
SeatAhead(i, j) ==
    \/ Abs(seatData[i].net_vol) > Abs(seatData[j].net_vol)
    \/ Abs(seatData[i].net_vol) = Abs(seatData[j].net_vol) /\ i < j

\* the first N seats of a day by |net_vol|
NetSeats(d, breadth) ==
    {i \in DayIndices(d) :
        WithinBreadth(Cardinality({j \in DayIndices(d) : SeatAhead(j, i)}), breadth)}

OneRecordPerDate ==
    /\ Len(result) = Cardinality(DatesOfInput)
    /\ {result[k].trade_date : k \in 1..Len(result)} = DatesOfInput

(* C7: for each date and breadth, calculateRealLongShort pools the long    *)
(* volume and the short volume of every seat as separate entries, sorts    *)
(* the pool by volume descending (stable), takes the first N entries,      *)
(* collects their distinct seats and returns realLong = sum of the         *)
(* positive net_vol of those seats, realShort = sum of |net_vol| of those  *)
(* with negative net_vol, realDiff = realLong - realShort.                 *)
C7_RealLongShort ==
    Called("calculateRealLongShort") =>
        /\ OneRecordPerDate
        /\ \A r \in RowsOf(result), b \in Breadths :
              LET S == RealSeats(r.trade_date, b)
                  realLong == SumOver({i \in S : seatData[i].net_vol > 0}, NetVol)
                  realShort == SumOver({i \in S : seatData[i].net_vol < 0}, NegNetVol)
              IN  /\ r[Pick(b, "real_long_10", "real_long_20", "real_long_all")] = realLong
                  /\ r[Pick(b, "real_short_10", "real_short_20", "real_short_all")] = realShort
                  /\ r[Pick(b, "real_diff_10", "real_diff_20", "real_diff_all")]
                       = realLong - realShort

\* a day on which the first 10 entries, the first 20 entries and the whole
\* pool reach different seats
C7_Witness ==
    /\ Called("calculateRealLongShort")
    /\ \E r \in RowsOf(result) :
          /\ Cardinality(RealSeats(r.trade_date, "10"))
               < Cardinality(RealSeats(r.trade_date, "20"))
          /\ Cardinality(RealSeats(r.trade_date, "20"))
               < Cardinality(RealSeats(r.trade_date, "all"))
          /\ r.real_long_10 < r.real_long_20
          /\ r.real_short_20 < r.real_short_all

(* C8: for each date and breadth, calculateNetLongShort takes the first N  *)
(* seats of the day's seats sorted by |net_vol| descending (stable) and    *)
(* returns netLong = sum of their positive net_vol, netShort = |sum of     *)
(* their negative net_vol|, netDiff = netLong - netShort.                  *)
C8_NetLongShort ==
    Called("calculateNetLongShort") =>
        /\ OneRecordPerDate
        /\ \A r \in RowsOf(result), b \in Breadths :
              LET S == NetSeats(r.trade_date, b)
                  netLong == SumOver({i \in S : seatData[i].net_vol > 0}, NetVol)
                  netShort == Abs(SumOver({i \in S : seatData[i].net_vol < 0}, NetVol))
              IN  /\ Cardinality(S) =
                        Pick(b, Min(10, Cardinality(DayIndices(r.trade_date))),
                                Min(20, Cardinality(DayIndices(r.trade_date))),
                                Cardinality(DayIndices(r.trade_date)))
                  /\ r[Pick(b, "net_long_10", "net_long_20", "net_long_all")] = netLong
                  /\ r[Pick(b, "net_short_10", "net_short_20", "net_short_all")] = netShort
                  /\ r[Pick(b, "net_diff_10", "net_diff_20", "net_diff_all")]
                       = netLong - netShort

\* a day with more than 20 seats on which the three breadths differ
C8_Witness ==
    /\ Called("calculateNetLongShort")
    /\ \E r \in RowsOf(result) :
          /\ Cardinality(DayIndices(r.trade_date)) > 20
          /\ r.net_long_10 < r.net_long_20
          /\ r.net_short_20 < r.net_short_all

(* C9: for each date and breadth, calculateFlowLongShort classifies every  *)
(* selected seat by the signs of (net_vol, net_chg): (+,+) adds net_vol to *)
(* addLong, (-,-) adds |net_vol| to addShort, (+,-) adds -net_vol to       *)
(* reduceLong, (-,+) adds net_vol to reduceShort, and a seat with          *)
(* net_vol = 0 or net_chg = 0 changes no bucket; the seats S1(+50, +5),    *)
(* S2(-30, -2), S3(+20, -1) give 50, 30, -20 and 0 at breadth 10.          *)
C9_FlowLongShort ==
    Called("calculateFlowLongShort") =>
        /\ OneRecordPerDate
        /\ \A r \in RowsOf(result), b \in Breadths :
              LET S == NetSeats(r.trade_date, b)
                  Signs(sv, sc) == {i \in S : /\ sv * seatData[i].net_vol > 0
                                              /\ sc * seatData[i].net_chg > 0}
              IN  /\ r[Pick(b, "add_long_10", "add_long_20", "add_long_all")]
                       = SumOver(Signs(1, 1), NetVol)
                  /\ r[Pick(b, "add_short_10", "add_short_20", "add_short_all")]
                       = SumOver(Signs(-1, -1), NegNetVol)
                  /\ r[Pick(b, "reduce_long_10", "reduce_long_20", "reduce_long_all")]
                       = SumOver(Signs(1, -1), NegNetVol)
                  /\ r[Pick(b, "reduce_short_10", "reduce_short_20", "reduce_short_all")]
                       = SumOver(Signs(-1, 1), NetVol)
        /\ seatData = ExampleSeats =>
              /\ Len(result) = 1
              /\ result[1].add_long_10 = 50
              /\ result[1].add_short_10 = 30
              /\ result[1].reduce_long_10 = -20
              /\ result[1].reduce_short_10 = 0

\* among the first 10 seats of a day there are seats of all four sign
\* classes and a seat whose net_chg is 0
C9_Witness ==
    /\ Called("calculateFlowLongShort")
    /\ \E r \in RowsOf(result) :
          /\ r.add_long_10 > 0 /\ r.add_short_10 > 0
          /\ r.reduce_long_10 < 0 /\ r.reduce_short_10 < 0
          /\ r.add_long_10 < r.add_long_all
          /\ \E i \in NetSeats(r.trade_date, "10") :
                seatData[i].net_vol # 0 /\ seatData[i].net_chg = 0

FlowReduceFields(r) ==
    [breadth \in Breadths |->
        [reduceLong |-> r[Pick(breadth, "reduce_long_10", "reduce_long_20", "reduce_long_all")],
         reduceShort |-> r[Pick(breadth, "reduce_short_10", "reduce_short_20", "reduce_short_all")]]]

(* C10 as stated: in every flow record, for every breadth, reduceLong is   *)
(* stored non-positive and reduceShort is stored non-negative.             *)
C10_Original ==
    Called("calculateFlowLongShort") =>
        \A r \in RowsOf(result), b \in Breadths :
            /\ FlowReduceFields(r)[b].reduceLong <= 0
            /\ FlowReduceFields(r)[b].reduceShort >= 0

(* C10 amended: in every flow record, for every breadth, reduceLong is     *)
(* stored non-positive and reduceShort is stored non-positive as well: it  *)
(* is the sum of the negative net_vol of the seats that reduce a short.    *)
C10_ReduceSigns ==
    Called("calculateFlowLongShort") =>
        \A r \in RowsOf(result), b \in Breadths :
            /\ FlowReduceFields(r)[b].reduceLong <= 0
            /\ FlowReduceFields(r)[b].reduceShort <= 0

\* a record in which a reduced long and a reduced short are both stored
C10_Witness ==
    /\ Called("calculateFlowLongShort")
    /\ \E r \in RowsOf(result) :
          /\ r.reduce_long_10 < 0
          /\ r.reduce_short_10 < 0
          /\ r.reduce_short_20 < r.reduce_short_10

-----------------------------------------------------------------------------
(* IndicatorCalculator: the trend and profit metrics of the seat table.    *)
(* A profit is a price times a volume times a contract unit, so it counts  *)
(* hundredths like the prices do.                                          *)

Max(a, b) == IF a >= b THEN a ELSE b

\* Math.min(...values) of a non-empty array
RECURSIVE MinOf(_)
MinOf(values) ==
    IF Len(values) = 1 THEN values[1]
    ELSE Min(values[1], MinOf(Tail(values)))

\* Math.max(...values) of a non-empty array
RECURSIVE MaxOf(_)
MaxOf(values) ==
    IF Len(values) = 1 THEN values[1]
    ELSE Max(values[1], MaxOf(Tail(values)))

\* items.slice(-n), n > 0
SliceLast(items, n) == SubSeq(items, Max(1, Len(items) - n + 1), Len(items))

\* the trend over the last `period` observations, today among them
trendOverLastDays(netPositions, period) ==
    IF Len(netPositions) < period + 1 THEN 0
    ELSE LET currentPosition == netPositions[Len(netPositions)]
             periodData == SliceLast(netPositions, period)
         IN  Max(Abs(currentPosition - MinOf(periodData)),
                 Abs(currentPosition - MaxOf(periodData)))

calculateTrendIndicator(netPositions, period) ==
    IF Len(netPositions) < period + 1 THEN 0
    ELSE LET currentPosition == netPositions[Len(netPositions)]
             \* netPositions.slice(-period - 1, -1)
             periodData == SubSeq(netPositions, Len(netPositions) - period,
                                  Len(netPositions) - 1)
             minValue == MinOf(periodData)
             maxValue == MaxOf(periodData)
         IN  Max(Abs(currentPosition - minValue), Abs(currentPosition - maxValue))

\* seatData.filter(item => item.seat_name === seat.seat_name)
\*         .sort((a, b) => a.trade_date.localeCompare(b.trade_date))
seatHistory(data, seat_name) ==
    LET OfSeat(item) == item.seat_name = seat_name
    IN  SortByDate(SelectSeq(data, OfSeat))

\* seatHistory.map(item => item.net_vol)
netPositionsOf(history) == [i \in 1..Len(history) |-> history[i].net_vol]

\* Math.round(totalProfit): to a whole number, halves upwards
RoundToInteger(hundredths) == ((2 * hundredths + 100) \div 200) * 100

\* the pairs (today, yesterday) the loop of calculateProfitLoss visits
profitLossTerms(positions, period) ==
    LET endIndex == Len(positions) - 1
        startIndex == Max(0, endIndex - period + 1)
    IN  [j \in 1..(endIndex - startIndex) |->
            [today |-> positions[startIndex + j + 1],
             yesterday |-> positions[startIndex + j]]]

dailyProfit(today, yesterday, contractUnit) ==
    (today.netVol * today.settlePrice - yesterday.netVol * yesterday.settlePrice)
        * contractUnit

calculateProfitLoss(positions, contractUnit, period) ==
    IF Len(positions) < 2 THEN 0
    ELSE LET terms == profitLossTerms(positions, period)
             profits == [j \in 1..Len(terms) |->
                            [dailyProfit |-> dailyProfit(terms[j].today,
                                                         terms[j].yesterday,
                                                         contractUnit)]]
         IN  RoundToInteger(SumField(profits, "dailyProfit"))

\* priceData.find(p => p.date === date): the first match, Null without one
FindPrice(priceData, date) ==
    IF \E i \in 1..Len(priceData) : priceData[i].date = date
    THEN priceData[CHOOSE i \in 1..Len(priceData) :
                      /\ priceData[i].date = date
                      /\ \A j \in 1..(i - 1) : priceData[j].date # date]
    ELSE Null

\* seatHistory.map(item => ({date, netVol, settlePrice: priceInfo?.settlePrice || 0}))
pricedPositions(history, priceData) ==
    [i \in 1..Len(history) |->
        LET priceInfo == FindPrice(priceData, history[i].trade_date)
        IN  [date |-> history[i].trade_date,
             netVol |-> history[i].net_vol,
             settlePrice |-> IF priceInfo = Null THEN 0 ELSE priceInfo.settlePrice]]

\* the positions with price 0 entered for the days without a price
positionPriceDataZeroFilled(history, priceData) ==
    pricedPositions(history, priceData)

positionPriceData(history, priceData) ==
    LET HasPrice(item) == item.settlePrice > 0
    IN  SelectSeq(pricedPositions(history, priceData), HasPrice)

convertToSeatTableData(data, priceData, contractUnit, tradeDate) ==
    LET dayData == DayData(data, tradeDate)
    IN  [s \in 1..Len(dayData) |->
            LET history == seatHistory(data, dayData[s].seat_name)
                netPositions == netPositionsOf(history)
                positions == positionPriceData(history, priceData)
            IN  [seat_name |-> dayData[s].seat_name,
                 profit_15 |-> calculateProfitLoss(positions, contractUnit, 15),
                 profit_60 |-> calculateProfitLoss(positions, contractUnit, 60),
                 profit_120 |-> calculateProfitLoss(positions, contractUnit, 120),
                 trend_05 |-> calculateTrendIndicator(netPositions, 5),
                 trend_15 |-> calculateTrendIndicator(netPositions, 15),
                 trend_30 |-> calculateTrendIndicator(netPositions, 30)]]

-----------------------------------------------------------------------------
(* DataAccessService: the seat table of getSeatTableData *)

\* sortedPriceData.find(p => p.trade_date === date)
FindSettle(priceData, date) ==
    IF \E i \in 1..Len(priceData) : priceData[i].trade_date = date
    THEN priceData[CHOOSE i \in 1..Len(priceData) :
                      /\ priceData[i].trade_date = date
                      /\ \A j \in 1..(i - 1) : priceData[j].trade_date # date]
    ELSE Null

\* the pairs (today, yesterday) of the loop of calculateProfitIndicator whose
\* daily profit is added, with the prices found for them
profitIndicatorTerms(sortedSeatData, sortedPriceData, period) ==
    LET startIndex == Max(0, Len(sortedSeatData) - period)
        pairs == [j \in 1..(Len(sortedSeatData) - 1 - startIndex) |->
                    [today |-> sortedSeatData[startIndex + j + 1],
                     yesterday |-> sortedSeatData[startIndex + j],
                     todayPrice |-> FindSettle(sortedPriceData,
                                       sortedSeatData[startIndex + j + 1].trade_date),
                     yesterdayPrice |-> FindSettle(sortedPriceData,
                                           sortedSeatData[startIndex + j].trade_date)]]
        Added(pair) ==
            /\ pair.todayPrice # Null
            /\ pair.yesterdayPrice # Null
            /\ pair.todayPrice.settle > 0
            /\ pair.yesterdayPrice.settle > 0
    IN  SelectSeq(pairs, Added)

\* the contractUnit of calculateProfitIndicator
DefaultContractUnit == 5

calculateProfitIndicator(seatRows, priceData, period) ==
    IF Len(seatRows) < 2 \/ Len(priceData) < 2 THEN 0
    ELSE LET sortedSeatData == SortByDate(seatRows)
             sortedPriceData == SortByDate(priceData)
             terms == profitIndicatorTerms(sortedSeatData, sortedPriceData, period)
             profits == [j \in 1..Len(terms) |->
                 [dailyProfit |->
                     (terms[j].today.net_vol * terms[j].todayPrice.settle
                        - terms[j].yesterday.net_vol * terms[j].yesterdayPrice.settle)
                     * DefaultContractUnit]]
         \* Math.round(totalProfit * 100) / 100
         IN  Round2(SumField(profits, "dailyProfit"), 1)

\* Math.round(trend) leaves the whole number it is given
DataAccessService_calculateTrendIndicator(seatRows, period) ==
    IF Len(seatRows) = 0 THEN 0
    ELSE LET sortedData == SortByDate(seatRows)
             recentData == SliceLast(sortedData, period)
             netPositions == netPositionsOf(recentData)
             current == netPositions[Len(netPositions)]
             min == MinOf(netPositions)
             max == MaxOf(netPositions)
         IN  Max(Abs(current - min), Abs(current - max))

\* getDateBefore(endDate, 120), a date being the rank of its day
FetchDays == 120

\* getSeatAnalysis / getWeightedContracts({beginDate, endDate}) on the rows
\* of the commodity
InDateRange(rows, beginDate, endDate) ==
    LET Within(item) == beginDate <= item.trade_date /\ item.trade_date <= endDate
    IN  SelectSeq(rows, Within)

RECURSIVE seatTableMap(_, _, _)
\* seatMap after the loop over currentSeats
seatTableMap(currentSeats, seatAnalysisData, priceData) ==
    IF currentSeats = <<>> THEN <<>>
    ELSE LET seatName == currentSeats[Len(currentSeats)]
             OfSeat(item) == item.seat_name = seatName
             seatRows == SelectSeq(seatAnalysisData, OfSeat)
             tableItem ==
                 [seat_name |-> seatName,
                  profit_15 |-> calculateProfitIndicator(seatRows, priceData, 15),
                  profit_60 |-> calculateProfitIndicator(seatRows, priceData, 60),
                  profit_120 |-> calculateProfitIndicator(seatRows, priceData, 120),
                  trend_05 |-> DataAccessService_calculateTrendIndicator(seatRows, 5),
                  trend_15 |-> DataAccessService_calculateTrendIndicator(seatRows, 15),
                  trend_30 |-> DataAccessService_calculateTrendIndicator(seatRows, 30)]
         IN  MapSet(seatTableMap(SubSeq(currentSeats, 1, Len(currentSeats) - 1),
                                 seatAnalysisData, priceData),
                    seatName, tableItem)

\* the net_vol the sort of tableData finds for a seat
CurrentNetVol(currentSeatData, seat_name) ==
    IF \E i \in 1..Len(currentSeatData) : currentSeatData[i].seat_name = seat_name
    THEN currentSeatData[CHOOSE i \in 1..Len(currentSeatData) :
            /\ currentSeatData[i].seat_name = seat_name
            /\ \A j \in 1..(i - 1) : currentSeatData[j].seat_name # seat_name].net_vol
    ELSE 0

\* the table computed on a cache miss; limit = 0 stands for no limit
getSeatTableData(seatRows, priceRows, tradeDate, limit) ==
    LET seatAnalysisData == InDateRange(seatRows, tradeDate - FetchDays, tradeDate)
        priceData == InDateRange(priceRows, tradeDate - FetchDays, tradeDate)
        currentSeatData == DayData(seatAnalysisData, tradeDate)
        currentSeats == [i \in 1..Len(currentSeatData) |-> currentSeatData[i].seat_name]
        seatMap == seatTableMap(currentSeats, seatAnalysisData, priceData)
        tableData == [i \in 1..Len(seatMap) |-> seatMap[i].value]
        sorted == SortDescending(tableData,
                      [i \in 1..Len(tableData) |->
                          Abs(CurrentNetVol(currentSeatData, tableData[i].seat_name))])
    IN  IF limit # 0 THEN Slice0(sorted, limit) ELSE sorted

-----------------------------------------------------------------------------
(* The seat histories the seat table is computed from: seat S01 on the     *)
(* days 1..n and seat S02 on every third day, handed over latest day first *)
(* when the seed is odd                                                    *)

MaxDays == 32
MaxHistorySeed == 3

TrendPeriods == {5, 15, 30}

\* small volumes, and a large long position on day k
HistoryRow(seat, d, k) ==
    Summary(d, SeatName(seat),
            ((d * (2 * k + 1) + seat) % 9) + (IF d = k THEN 20 ELSE 0),
            (d * d + k) % 7, 0, 0)

Reversed(items) == [i \in 1..Len(items) |-> items[Len(items) + 1 - i]]

History(n, k) ==
    LET first == [d \in 1..n |-> HistoryRow(1, d, k)]
        second == [j \in 1..(n \div 3) |-> HistoryRow(2, 3 * j, k)]
    IN  IF k % 2 = 1 THEN Reversed(first \o second) ELSE first \o second

HistoryInputs == {History(n, k) : n \in 0..MaxDays, k \in 1..MaxHistorySeed}

\* a price of the commodity on a day: IndicatorCalculator reads date and
\* settlePrice, DataAccessService trade_date and settle of a weighted contract
PriceRow(d, s) == [date |-> d, settlePrice |-> s, trade_date |-> d, settle |-> s]

\* prices between 10.00 and 12.50 in steps of 0.25
SettleOf(d) == 1000 + 25 * ((7 * d) % 11)

\* the prices of the days 1..m; with gaps, every fourth day has no price
\* and every fifth day the price 0
Prices(m, gaps) ==
    LET Present(d) == ~gaps \/ d % 4 # 2
        days == SelectSeq([d \in 1..m |-> d], Present)
    IN  [i \in 1..Len(days) |->
            PriceRow(days[i], IF gaps /\ days[i] % 5 = 3 THEN 0 ELSE SettleOf(days[i]))]

PriceInputs ==
    {<<>>, Prices(1, FALSE), Prices(MaxDays, FALSE), Prices(MaxDays, TRUE)}

ProfitPeriods == {15, 60, 120}

ContractUnits == {5, 10}

\* the latest day of the rows, 1 without rows
LastDate(rows) ==
    IF rows = <<>> THEN 1
    ELSE CHOOSE d \in {rows[i].trade_date : i \in 1..Len(rows)} :
            \A i \in 1..Len(rows) : rows[i].trade_date <= d

\* the table is asked for the latest day or the day before
TableDates == {LastDate(seatData), Max(1, LastDate(seatData) - 1)}

InitTrend ==
    /\ InitCommon
    /\ holdingData = <<>>
    /\ marketData \in PriceInputs
    /\ seatData \in HistoryInputs

CalculateTrendIndicator(period) ==
    /\ result' = calculateTrendIndicator(netPositionsOf(seatHistory(seatData, SeatName(1))),
                                         period)
    /\ lastCall' = [op |-> "calculateTrendIndicator",
                    netPositions |-> netPositionsOf(seatHistory(seatData, SeatName(1))),
                    period |-> period]
    /\ UNCHANGED <<marketData, holdingData, seatData, seat_analysis, inserted,
                 realLongShortData, netLongShortData, serviceVars>>

CalculateProfitLoss(contractUnit, period) ==
    /\ result' = calculateProfitLoss(
                     positionPriceData(seatHistory(seatData, SeatName(1)), marketData),
                     contractUnit, period)
    /\ lastCall' = [op |-> "calculateProfitLoss",
                    positions |-> positionPriceData(seatHistory(seatData, SeatName(1)),
                                                    marketData),
                    contractUnit |-> contractUnit,
                    period |-> period]
    /\ UNCHANGED <<marketData, holdingData, seatData, seat_analysis, inserted,
                 realLongShortData, netLongShortData, serviceVars>>

ConvertToSeatTableData(contractUnit, tradeDate) ==
    /\ result' = convertToSeatTableData(seatData, marketData, contractUnit, tradeDate)
    /\ lastCall' = [op |-> "convertToSeatTableData", contractUnit |-> contractUnit,
                    tradeDate |-> tradeDate]
    /\ UNCHANGED <<marketData, holdingData, seatData, seat_analysis, inserted,
                 realLongShortData, netLongShortData, serviceVars>>

GetSeatTableData(tradeDate, limit) ==
    /\ result' = getSeatTableData(seatData, marketData, tradeDate, limit)
    /\ lastCall' = [op |-> "getSeatTableData", tradeDate |-> tradeDate, limit |-> limit]
    /\ UNCHANGED <<marketData, holdingData, seatData, seat_analysis, inserted,
                 realLongShortData, netLongShortData, serviceVars>>

NextTrend ==
    \/ \E period \in TrendPeriods : CalculateTrendIndicator(period)
    \/ \E contractUnit \in ContractUnits, period \in ProfitPeriods :
          CalculateProfitLoss(contractUnit, period)
    \/ \E contractUnit \in ContractUnits, tradeDate \in TableDates :
          ConvertToSeatTableData(contractUnit, tradeDate)
    \/ \E tradeDate \in TableDates, limit \in 0..1 : GetSeatTableData(tradeDate, limit)

SpecTrend == InitTrend /\ [][NextTrend]_vars

-----------------------------------------------------------------------------
(* Properties of the trend and profit metrics *)

\* the observations strictly before the last one, at most `window` of them
PriorWindow(netPositions, window) ==
    {netPositions[i] : i \in ((Len(netPositions) - window)..(Len(netPositions) - 1))
                                \cap (1..Len(netPositions))}

Lowest(S) == CHOOSE x \in S : \A y \in S : x <= y

Highest(S) == CHOOSE x \in S : \A y \in S : x >= y

\* Trend(window): 0 with fewer than window + 1 observations, otherwise the
\* larger distance of today from the minimum and the maximum of the window
\* days before today
TrendOf(netPositions, window) ==
    IF Len(netPositions) < window + 1 THEN 0
    ELSE LET today == netPositions[Len(netPositions)]
             P == PriorWindow(netPositions, window)
             toMin == Abs(today - Lowest(P))
             toMax == Abs(today - Highest(P))
         IN  IF toMin >= toMax THEN toMin ELSE toMax

\* C11: calculateTrendIndicator(netPositions, window) returns 0 when fewer
\* than window + 1 observations are given; otherwise it returns
\* max(|today - min(P)|, |today - max(P)|), where today is the last observation
\* and P the window observations right before it; the result is never negative
C11_TrendIndicator ==
    Called("calculateTrendIndicator") =>
        /\ result >= 0
        /\ Len(lastCall.netPositions) < lastCall.period + 1 => result = 0
        /\ result = TrendOf(lastCall.netPositions, lastCall.period)

\* a trend over 30 days that the day 30 days before today decides: leaving
\* it out of the window, or taking today in, gives another value
C11_Witness ==
    /\ Called("calculateTrendIndicator")
    /\ lastCall.period = 30
    /\ Len(lastCall.netPositions) >= 31
    /\ result > 0
    /\ result # trendOverLastDays(lastCall.netPositions, 30)

\* the net positions, oldest first, of a seat in the rows getSeatTableData
\* fetches for a trade date
FetchedNetPositions(seat_name, tradeDate) ==
    netPositionsOf(seatHistory(InDateRange(seatData, tradeDate - FetchDays, tradeDate),
                               seat_name))

\* C12: the trend_05, trend_15 and trend_30 of getSeatTableData follow
\* Trend(window): 0 when the seat has fewer than window + 1 observations,
\* otherwise the larger distance of today's net position from the minimum and
\* the maximum of the window days before today; they are the values
\* IndicatorCalculator.calculateTrendIndicator returns for the same history
C12_SameTrend ==
    Called("getSeatTableData") =>
        \A i \in 1..Len(result) :
            LET np == FetchedNetPositions(result[i].seat_name, lastCall.tradeDate)
            IN  /\ result[i].trend_05 = TrendOf(np, 5)
                /\ result[i].trend_15 = TrendOf(np, 15)
                /\ result[i].trend_30 = TrendOf(np, 30)
                /\ result[i].trend_05 = calculateTrendIndicator(np, 5)
                /\ result[i].trend_15 = calculateTrendIndicator(np, 15)
                /\ result[i].trend_30 = calculateTrendIndicator(np, 30)

\* the daily P&L terms of positions: term t is of day t against day t - 1
DailyTerms(positions, unit) ==
    [t \in 2..Len(positions) |->
        (positions[t].netVol * positions[t].settlePrice
           - positions[t - 1].netVol * positions[t - 1].settlePrice) * unit]

\* C13: calculateProfitLoss(positions, unit, window) returns the rounded sum
\* of the daily P&L terms (net_t * settle_t - net_(t-1) * settle_(t-1)) * unit
\* of the last window trading days ending at the last position: exactly
\* window terms whenever at least window + 1 positions are available (and
\* every term there is with fewer positions)
C13_WindowTerms ==
    Called("calculateProfitLoss") =>
        LET n == Len(lastCall.positions)
            window == lastCall.period
            first == IF n >= window + 1 THEN n - window + 1 ELSE 2
        IN  result = RoundToInteger(
                SumOver(first..n, DailyTerms(lastCall.positions, lastCall.contractUnit)))

\* the profit of a row of the seat table for a period
ProfitField(row, period) ==
    CASE period = 15 -> row.profit_15
      [] period = 60 -> row.profit_60
      [] period = 120 -> row.profit_120

\* the days of a history that have no price in the price list, or a price
\* that is not positive
UnpricedDays(history, priceData) ==
    {history[i].trade_date : i \in 1..Len(history)}
        \ {priceData[j].date : j \in {j \in 1..Len(priceData) : priceData[j].settlePrice > 0}}

\* C14: a date without a matched settlement price, or with a price that is
\* not > 0, is skipped and not entered with price 0: every daily P&L term of
\* convertToSeatTableData and of calculateProfitIndicator is computed from two
\* settlement prices > 0 that the price list holds for the days of the term,
\* and the profits returned are the rounded sums of these terms
C14_NoZeroPriceTerm ==
    /\ Called("convertToSeatTableData") =>
        \A i \in 1..Len(result) : \A period \in ProfitPeriods :
            LET history == seatHistory(seatData, result[i].seat_name)
                terms == profitLossTerms(positionPriceData(history, marketData), period)
                profit == [j \in 1..Len(terms) |->
                              dailyProfit(terms[j].today, terms[j].yesterday,
                                          lastCall.contractUnit)]
            IN  /\ \A j \in 1..Len(terms) :
                      /\ terms[j].today.settlePrice > 0
                      /\ terms[j].yesterday.settlePrice > 0
                      /\ terms[j].today.date \notin UnpricedDays(history, marketData)
                      /\ terms[j].yesterday.date \notin UnpricedDays(history, marketData)
                /\ ProfitField(result[i], period)
                     = RoundToInteger(SumOver(1..Len(terms), profit))
    /\ Called("getSeatTableData") =>
        \A i \in 1..Len(result) : \A period \in ProfitPeriods :
            LET seatRows == seatHistory(
                                InDateRange(seatData, lastCall.tradeDate - FetchDays,
                                            lastCall.tradeDate),
                                result[i].seat_name)
                priceData == InDateRange(marketData, lastCall.tradeDate - FetchDays,
                                         lastCall.tradeDate)
                terms == profitIndicatorTerms(seatRows, priceData, period)
            IN  \A j \in 1..Len(terms) :
                    /\ terms[j].todayPrice.settle > 0
                    /\ terms[j].yesterdayPrice.settle > 0
                    /\ terms[j].today.trade_date \notin UnpricedDays(seatRows, priceData)
                    /\ terms[j].yesterday.trade_date \notin UnpricedDays(seatRows, priceData)

\* a seat with days without a price and days with price 0 in its history,
\* and a profit that the remaining days give
C14_Witness ==
    /\ Called("convertToSeatTableData")
    /\ \E i \in 1..Len(result) :
          LET history == seatHistory(seatData, result[i].seat_name)
          IN  /\ \E k \in 1..Len(history) :
                    FindPrice(marketData, history[k].trade_date) = Null
              /\ \E k \in 1..Len(history) :
                    /\ FindPrice(marketData, history[k].trade_date) # Null
                    /\ FindPrice(marketData, history[k].trade_date).settlePrice = 0
              /\ result[i].profit_15 # 0

\* C15: the profit metric is rounded by one fixed policy in every code path:
\* for the same seat history, settlement prices and contract unit,
\* calculateProfitLoss and calculateProfitIndicator round the accumulated P&L
\* the same way, so a seat whose days all have a positive price gets the same
\* profit from both
C15_SameRounding ==
    Called("getSeatTableData") =>
        \A i \in 1..Len(result) : \A period \in ProfitPeriods :
            LET seatRows == seatHistory(
                                InDateRange(seatData, lastCall.tradeDate - FetchDays,
                                            lastCall.tradeDate),
                                result[i].seat_name)
                priceData == InDateRange(marketData, lastCall.tradeDate - FetchDays,
                                         lastCall.tradeDate)
            IN  UnpricedDays(seatRows, priceData) = {} =>
                    ProfitField(result[i], period)
                      = calculateProfitLoss(positionPriceData(seatRows, priceData),
                                            DefaultContractUnit, period)

-----------------------------------------------------------------------------
(* IndicatorCalculator.generatePieChartData.  A ratio is value / total *   *)
(* 100 in the code; it is kept as the fraction [num, den] here, so that    *)
(* ratio >= 1 is num >= den.  The fields 持仓分布, 持仓变化 and 多空分布 of  *)
(* the result are holdingDistribution, holdingChange and longShort.        *)

\* the name '其他' of the bucket of the seats behind the tenth
Other == <<"other">>

\* the share as a fraction of 1
Share(value, total) ==
    IF total > 0 THEN [num |-> value, den |-> total] ELSE [num |-> 0, den |-> 1]

\* total > 0 ? (value / total) * 100 : 0
Ratio(value, total) ==
    IF total > 0 THEN [num |-> value * 100, den |-> total] ELSE [num |-> 0, den |-> 1]

\* items.forEach(item => item.ratio = ...) over the total of the items
WithRatios(items) ==
    LET total == SumField(items, "value")
    IN  [i \in 1..Len(items) |->
            [name |-> items[i].name, value |-> items[i].value,
             ratio |-> Ratio(items[i].value, total)]]

\* items.filter(item => item.ratio >= 1)
AtLeastOnePercent(items) ==
    LET Kept(item) == item.ratio.num >= item.ratio.den
    IN  SelectSeq(items, Kept)

\* a distribution that leaves the seats behind the tenth out
noOtherBucket(otherSeats) == <<>>

\* the '其他' entry pushed for the seats behind the tenth
otherBucket(otherSeats) ==
    LET values == [i \in 1..Len(otherSeats) |-> [value |-> Abs(otherSeats[i].net_vol)]]
        otherTotal == SumField(values, "value")
    IN  IF Len(otherSeats) > 0 /\ otherTotal > 0
        THEN << [name |-> Other, value |-> otherTotal] >>
        ELSE <<>>

AbsNetChgKeys(dayData) == [k \in 1..Len(dayData) |-> Abs(dayData[k].net_chg)]

\* the net short total as the signed sum
netShortSigned(dayData) ==
    LET IsShort(seat) == seat.net_vol < 0
    IN  SumField(SelectSeq(dayData, IsShort), "net_vol")

netShortOf(dayData) ==
    LET IsShort(seat) == seat.net_vol < 0
    IN  Abs(SumField(SelectSeq(dayData, IsShort), "net_vol"))

netLongOf(dayData) ==
    LET IsLong(seat) == seat.net_vol > 0
    IN  SumField(SelectSeq(dayData, IsLong), "net_vol")

\* totalNet > 0 ? (net / totalNet) * 100 : 50
SplitRatio(net, totalNet) ==
    IF totalNet > 0 THEN [num |-> net * 100, den |-> totalNet] ELSE [num |-> 50, den |-> 1]

generatePieChartData(data, tradeDate) ==
    LET dayData == DayData(data, tradeDate)
        sortedByNetVol == SortDescending(dayData, AbsNetKeys(dayData))
        top10Seats == Slice0(sortedByNetVol, 10)
        otherSeats == SubSeq(sortedByNetVol, 11, Len(sortedByNetVol))
        holdingDistribution ==
            WithRatios([i \in 1..Len(top10Seats) |->
                           [name |-> top10Seats[i].seat_name,
                            value |-> Abs(top10Seats[i].net_vol)]]
                       \o otherBucket(otherSeats))
        sortedByNetChg == SortDescending(dayData, AbsNetChgKeys(dayData))
        Changed(seat) == seat.net_chg # 0
        changedSeats == Slice0(SelectSeq(sortedByNetChg, Changed), 10)
        holdingChange ==
            WithRatios([i \in 1..Len(changedSeats) |->
                           [name |-> changedSeats[i].seat_name,
                            value |-> Abs(changedSeats[i].net_chg)]])
        netLong == netLongOf(dayData)
        netShort == netShortOf(dayData)
        totalNet == netLong + netShort
    IN  [holdingDistribution |-> AtLeastOnePercent(holdingDistribution),
         holdingChange |-> AtLeastOnePercent(holdingChange),
         longShort |-> [net_long |-> netLong,
                        net_short |-> netShort,
                        long_ratio |-> SplitRatio(netLong, totalNet),
                        short_ratio |-> SplitRatio(netShort, totalNet)]]

-----------------------------------------------------------------------------
(* The seat summaries the pie chart is generated from: the series of the   *)
(* indicator engine, the same series with every fifth seat holding a large *)
(* position, and a day on which every net position is 0                    *)

LargeRow(row) ==
    Summary(row.trade_date, row.seat_name, row.long_vol * 40 + 60, row.short_vol,
            row.long_chg * 30 + 50, row.short_chg)

PieSeries(n, k) ==
    [i \in 1..n |-> IF i % 5 = 2 THEN LargeRow(SeriesRow(i, k)) ELSE SeriesRow(i, k)]

FlatSeats ==
    << Summary(1, SeatName(1), 3, 3, 1, 1), Summary(1, SeatName(2), 0, 0, 0, 0) >>

PieInputs ==
    SeatInputs \cup {PieSeries(n, k) : n \in 0..MaxSeats, k \in 1..MaxSeed} \cup {FlatSeats}

InitPie ==
    /\ InitCommon
    /\ marketData = <<>>
    /\ holdingData = <<>>
    /\ seatData \in PieInputs

GeneratePieChartData(tradeDate) ==
    /\ result' = generatePieChartData(seatData, tradeDate)
    /\ lastCall' = [op |-> "generatePieChartData", tradeDate |-> tradeDate]
    /\ UNCHANGED <<marketData, holdingData, seatData, seat_analysis, inserted,
                 realLongShortData, netLongShortData, serviceVars>>

NextPie ==
    \/ \E tradeDate \in TradeDates : GeneratePieChartData(tradeDate)

SpecPie == InitPie /\ [][NextPie]_vars

-----------------------------------------------------------------------------
(* Properties of the pie chart data *)

AbsNetVol == [i \in 1..Len(seatData) |-> Abs(seatData[i].net_vol)]

\* the ratio of an entry is value / total * 100
IsRatioOf(ratio, value, total) ==
    /\ ratio.den > 0
    /\ ratio.num * total = value * 100 * ratio.den

\* value / total * 100 < 1; without a total every ratio is 0
BelowOnePercent(value, total) == total = 0 \/ value * 100 < total

\* C16: the position distribution of a date consists of the 10 seats with
\* the largest |net_vol| (equal ones in input order), each with value
\* |net_vol|, and one "other" entry with the total of the remaining seats;
\* the ratio of an entry is value / (sum of all reported values) * 100, and
\* exactly the entries with ratio < 1 are removed, the ratios of the entries
\* kept staying as they were
C16_PositionDistribution ==
    Called("generatePieChartData") =>
        LET top == NetSeats(lastCall.tradeDate, "10")
            otherTotal == SumOver(DayIndices(lastCall.tradeDate) \ top, AbsNetVol)
            total == SumOver(top, AbsNetVol) + otherTotal
            kept == {i \in top : ~BelowOnePercent(AbsNetVol[i], total)}
            otherKept == ~BelowOnePercent(otherTotal, total)
            out == result.holdingDistribution
            Place(i) == 1 + Cardinality({j \in kept : SeatAhead(j, i)})
        IN  /\ Len(out) = Cardinality(kept) + (IF otherKept THEN 1 ELSE 0)
            /\ \A i \in kept :
                  /\ out[Place(i)].name = seatData[i].seat_name
                  /\ out[Place(i)].value = AbsNetVol[i]
                  /\ IsRatioOf(out[Place(i)].ratio, AbsNetVol[i], total)
            /\ otherKept =>
                  /\ out[Len(out)].name = Other
                  /\ out[Len(out)].value = otherTotal
                  /\ IsRatioOf(out[Len(out)].ratio, otherTotal, total)

\* more than 10 seats, some of the first 10 below 1% and removed, the
\* "other" entry kept
C16_Witness ==
    /\ Called("generatePieChartData")
    /\ Cardinality(DayIndices(lastCall.tradeDate)) > 12
    /\ Len(result.holdingDistribution) \in 3..9
    /\ result.holdingDistribution[Len(result.holdingDistribution)].name = Other
    /\ result.holdingDistribution[1].ratio.num < 50 * result.holdingDistribution[1].ratio.den

AbsNetChg == [i \in 1..Len(seatData) |-> Abs(seatData[i].net_chg)]

\* seat i comes before seat j in the ranking by |net_chg|, equal ones in
\* input order
ChgAhead(i, j) ==
    \/ AbsNetChg[i] > AbsNetChg[j]
    \/ AbsNetChg[i] = AbsNetChg[j] /\ i < j

\* the first 10 seats of a day by |net_chg|
ChgSeats(d) ==
    {i \in DayIndices(d) : Cardinality({j \in DayIndices(d) : ChgAhead(j, i)}) < 10}

\* C17: the position-change distribution is built like the position
\* distribution: the seats are ranked by |net_chg|, the first 10 are kept and
\* all remaining seats are consolidated into one "other" bucket, which is
\* part of the reported values over which the ratios are computed
C17_ChangeDistribution ==
    Called("generatePieChartData") =>
        LET top == ChgSeats(lastCall.tradeDate)
            otherTotal == SumOver(DayIndices(lastCall.tradeDate) \ top, AbsNetChg)
            total == SumOver(top, AbsNetChg) + otherTotal
            kept == {i \in top : ~BelowOnePercent(AbsNetChg[i], total)}
            otherKept == ~BelowOnePercent(otherTotal, total)
            out == result.holdingChange
            Place(i) == 1 + Cardinality({j \in kept : ChgAhead(j, i)})
        IN  /\ Len(out) = Cardinality(kept) + (IF otherKept THEN 1 ELSE 0)
            /\ \A i \in kept :
                  /\ Place(i) <= Len(out)
                  /\ out[Place(i)].name = seatData[i].seat_name
                  /\ out[Place(i)].value = AbsNetChg[i]
                  /\ IsRatioOf(out[Place(i)].ratio, AbsNetChg[i], total)
            /\ otherKept =>
                  /\ Len(out) > 0
                  /\ out[Len(out)].name = Other
                  /\ out[Len(out)].value = otherTotal
                  /\ IsRatioOf(out[Len(out)].ratio, otherTotal, total)

-----------------------------------------------------------------------------
(* FilterService.  The parameters 收盘价条件, 实多空比较, 净多空比较, 实多极值,   *)
(* 实空极值, 实差极值, 净多极值, 净空极值 and 净差极值 are the fields             *)
(* priceCondition, realCompare, netCompare, realLongExtreme,               *)
(* realShortExtreme, realDiffExtreme, netLongExtreme, netShortExtreme and  *)
(* netDiffExtreme; a parameter that is not given is Null.  A period is     *)
(* "10", "20" or "all".                                                    *)

\* baseKey + (period === 'all' ? '_all' : `_${period}`)
PeriodKey(baseKey, period) ==
    baseKey \o (IF period = "all" THEN "_all" ELSE "_" \o period)

\* data[key] || 0
getValueByPeriod(data, baseKey, period) ==
    IF PeriodKey(baseKey, period) \in DOMAIN data
    THEN data[PeriodKey(baseKey, period)]
    ELSE 0

checkPriceCondition(contracts, days, type) ==
    IF Len(contracts) < days THEN FALSE
    ELSE LET recentContracts == Slice0(contracts, days)
             prices == [i \in 1..Len(recentContracts) |-> recentContracts[i].close]
             currentPrice == contracts[1].close
         IN  IF type = "highest" THEN currentPrice = MaxOf(prices)
             ELSE currentPrice = MinOf(prices)

checkRealLongShortCompare(realData, longPeriod, shortPeriod, operator) ==
    IF Len(realData) = 0 THEN FALSE
    ELSE LET latestData == realData[1]
             longValue == getValueByPeriod(latestData, "real_long", longPeriod)
             shortValue == getValueByPeriod(latestData, "real_short", shortPeriod)
         IN  IF operator = "greater" THEN longValue > shortValue
             ELSE longValue < shortValue

checkNetLongShortCompare(netData, longPeriod, shortPeriod, operator) ==
    IF Len(netData) = 0 THEN FALSE
    ELSE LET latestData == netData[1]
             longValue == getValueByPeriod(latestData, "net_long", longPeriod)
             shortValue == getValueByPeriod(latestData, "net_short", shortPeriod)
         IN  IF operator = "greater" THEN longValue > shortValue
             ELSE longValue < shortValue

\* data and valueKey are what the includes() tests of the condition key
\* select
checkExtremeCondition(data, valueKey, period, days, type) ==
    IF Len(data) < days THEN FALSE
    ELSE LET recentData == Slice0(data, days)
             values == [i \in 1..Len(recentData) |->
                           getValueByPeriod(recentData[i], valueKey, period)]
             currentValue == values[1]
         IN  IF type = "max" THEN currentValue = MaxOf(values)
             ELSE currentValue = MinOf(values)

\* the six entries of extremeConditions, with the data set and the value key
\* that checkExtremeCondition derives from the key
extremeConditions(params) ==
    << [type |-> "real-extreme", real |-> TRUE, valueKey |-> "real_long",
        params |-> params.realLongExtreme],
       [type |-> "real-extreme", real |-> TRUE, valueKey |-> "real_short",
        params |-> params.realShortExtreme],
       [type |-> "real-diff-extreme", real |-> TRUE, valueKey |-> "real_diff",
        params |-> params.realDiffExtreme],
       [type |-> "net-extreme", real |-> FALSE, valueKey |-> "net_long",
        params |-> params.netLongExtreme],
       [type |-> "net-extreme", real |-> FALSE, valueKey |-> "net_short",
        params |-> params.netShortExtreme],
       [type |-> "net-diff-extreme", real |-> FALSE, valueKey |-> "net_diff",
        params |-> params.netDiffExtreme] >>

\* params.x?.enabled
IsEnabled(condition) == condition # Null /\ condition.enabled

\* the conditions of one commodity in the order executeFilter evaluates
\* them: the type it pushes, the weight it adds, and whether the condition
\* is enabled and matched
evaluations(commodityContracts, realData, netData, params) ==
    LET extremes == extremeConditions(params)
    IN  << [type |-> "price-condition", weight |-> 10,
            isMatch |-> /\ IsEnabled(params.priceCondition)
                        /\ checkPriceCondition(commodityContracts,
                                               params.priceCondition.days,
                                               params.priceCondition.type)],
           [type |-> "real-compare", weight |-> 15,
            isMatch |-> /\ IsEnabled(params.realCompare)
                        /\ checkRealLongShortCompare(realData,
                                                     params.realCompare.longPeriod,
                                                     params.realCompare.shortPeriod,
                                                     params.realCompare.operator)],
           [type |-> "net-compare", weight |-> 15,
            isMatch |-> /\ IsEnabled(params.netCompare)
                        /\ checkNetLongShortCompare(netData,
                                                    params.netCompare.longPeriod,
                                                    params.netCompare.shortPeriod,
                                                    params.netCompare.operator)] >>
        \o [e \in 1..Len(extremes) |->
               [type |-> extremes[e].type, weight |-> 12,
                isMatch |-> /\ IsEnabled(extremes[e].params)
                            /\ checkExtremeCondition(
                                   IF extremes[e].real THEN realData ELSE netData,
                                   extremes[e].valueKey,
                                   extremes[e].params.period,
                                   extremes[e].params.days,
                                   extremes[e].params.type)]]

\* a score that counts 10 for every match
scoreOfEqualWeights(matched) == 10 * Len(matched)

\* score after the matches were added
scoreOf(matched) == SumField(matched, "weight")

\* the body of the loop over commodityIds: what is pushed to results when
\* matchConditions is not empty
filterCommodity(commodityId, weightedContracts, realData, netData, params) ==
    LET OfCommodity(item) == item.commodity_id = commodityId
        contracts == SelectSeq(weightedContracts, OfCommodity)
        \* commodityContracts.sort((a, b) => b.trade_date.localeCompare(a.trade_date))
        commodityContracts ==
            SortDescending(contracts, [i \in 1..Len(contracts) |-> contracts[i].trade_date])
        IsMatch(evaluation) == evaluation.isMatch
        matched == SelectSeq(evaluations(commodityContracts, realData, netData, params),
                             IsMatch)
    IN  [commodity_id |-> commodityId,
         commodity_name |-> commodityContracts[1].commodity_name,
         match_conditions |-> [i \in 1..Len(matched) |-> matched[i].type],
         score |-> scoreOf(matched)]

\* results with the commodities without a match among them
everyCommodity(entries) == entries

\* if (matchConditions.length > 0) results.push(...)
matchedCommodities(entries) ==
    LET HasMatch(entry) == Len(entry.match_conditions) > 0
    IN  SelectSeq(entries, HasMatch)

\* realOf[c] and netOf[c] are what getRealLongShortData(c) and
\* getNetLongShortData(c) return
executeFilter(weightedContracts, realOf, netOf, params) ==
    LET commodityIds ==
            Distinct([i \in 1..Len(weightedContracts) |-> weightedContracts[i].commodity_id])
        entries == [g \in 1..Len(commodityIds) |->
                       filterCommodity(commodityIds[g], weightedContracts,
                                       realOf[commodityIds[g]], netOf[commodityIds[g]],
                                       params)]
        results == matchedCommodities(entries)
    IN  \* results.sort((a, b) => b.score - a.score)
        SortDescending(results, [i \in 1..Len(results) |-> results[i].score])

-----------------------------------------------------------------------------
(* The data FilterService reads: the weighted contracts of three           *)
(* commodities (4, 6 and 9 days), and their real and net long/short        *)
(* records, latest day first (none, 6 and 9 days)                          *)

MaxFilterSeed == 2

FilterCommodities == << <<"I">>, <<"I", "C">>, <<"M">> >>

WeightedContract(d, c, close) ==
    [trade_date |-> d, commodity_id |-> c, commodity_name |-> c, close |-> close]

\* the days of the j-th commodity under seed k
ContractDays(j, k) == CASE (j + k) % 3 = 0 -> 4 [] (j + k) % 3 = 1 -> 6 [] (j + k) % 3 = 2 -> 9

RecordDays(j, k) == CASE (j + 2 * k) % 3 = 0 -> 0 [] (j + 2 * k) % 3 = 1 -> 6 [] (j + 2 * k) % 3 = 2 -> 9

\* day by day, the commodities in an order that depends on the day
WeightedContracts(k) ==
    LET Row(d, j) == WeightedContract(d, FilterCommodities[j],
                                      1000 + 25 * ((d * (j + k) + 3 * j) % 7))
        OfDay(d) == SelectSeq([p \in 1..3 |-> ((p + d + k) % 3) + 1],
                              LAMBDA j : d <= ContractDays(j, k))
    IN  Concat([d \in 1..9 |-> [p \in 1..Len(OfDay(d)) |-> Row(d, OfDay(d)[p])]])

RealRecord(t, j, k) ==
    LET long(p) == (t * (p + 1) + j + k) % 7
        short(p) == (t * j + p + 2 * k) % 5
    IN  [trade_date |-> 10 - t,
         real_long_10 |-> long(1), real_long_20 |-> long(2), real_long_all |-> long(3),
         real_short_10 |-> short(1), real_short_20 |-> short(2), real_short_all |-> short(3),
         real_diff_10 |-> long(1) - short(1), real_diff_20 |-> long(2) - short(2),
         real_diff_all |-> long(3) - short(3)]

NetRecord(t, j, k) ==
    LET long(p) == (t * (j + 1) + p + k) % 6
        short(p) == (t * p + 2 * j + k) % 7
    IN  [trade_date |-> 10 - t,
         net_long_10 |-> long(1), net_long_20 |-> long(2), net_long_all |-> long(3),
         net_short_10 |-> short(1), net_short_20 |-> short(2), net_short_all |-> short(3),
         net_diff_10 |-> long(1) - short(1), net_diff_20 |-> long(2) - short(2),
         net_diff_all |-> long(3) - short(3)]

IndexOfCommodity(c) == CHOOSE j \in 1..3 : FilterCommodities[j] = c

RealData(k) ==
    [c \in CommodityIds |->
        [t \in 1..RecordDays(IndexOfCommodity(c), k) |-> RealRecord(t, IndexOfCommodity(c), k)]]

NetData(k) ==
    [c \in CommodityIds |->
        [t \in 1..RecordDays(IndexOfCommodity(c), k) |-> NetRecord(t, IndexOfCommodity(c), k)]]


ConditionNames ==
    {"priceCondition", "realCompare", "netCompare", "realLongExtreme", "realShortExtreme",
     "realDiffExtreme", "netLongExtreme", "netShortExtreme", "netDiffExtreme"}

\* the parameters with the conditions of `enabled` enabled; in style 1 the
\* other conditions are not given and the question is for highs over 5
\* days, in style 2 they are given disabled and it is for lows over 8 days
FilterParams(enabled, style) ==
    LET Given(name, condition) ==
            IF name \in enabled THEN condition
            ELSE IF style = 1 THEN Null
            ELSE [condition EXCEPT !.enabled = FALSE]
        days == IF style = 1 THEN 5 ELSE 8
        compare == [enabled |-> TRUE,
                    longPeriod |-> IF style = 1 THEN "10" ELSE "all",
                    shortPeriod |-> IF style = 1 THEN "20" ELSE "10",
                    operator |-> IF style = 1 THEN "greater" ELSE "less"]
        extreme == [enabled |-> TRUE,
                    period |-> IF style = 1 THEN "10" ELSE "all",
                    days |-> days,
                    type |-> IF style = 1 THEN "max" ELSE "min"]
    IN  [priceCondition |->
            Given("priceCondition",
                  [enabled |-> TRUE, days |-> days,
                   type |-> IF style = 1 THEN "highest" ELSE "lowest"]),
         realCompare |-> Given("realCompare", compare),
         netCompare |-> Given("netCompare", compare),
         realLongExtreme |-> Given("realLongExtreme", extreme),
         realShortExtreme |-> Given("realShortExtreme", extreme),
         realDiffExtreme |-> Given("realDiffExtreme", extreme),
         netLongExtreme |-> Given("netLongExtreme", extreme),
         netShortExtreme |-> Given("netShortExtreme", extreme),
         netDiffExtreme |-> Given("netDiffExtreme", extreme)]

MaxEnabled == 2

\* every condition enabled, or at most MaxEnabled of them
FilterInputs ==
    {FilterParams(enabled, style) :
        enabled \in {e \in SUBSET ConditionNames :
                        Cardinality(e) <= MaxEnabled \/ e = ConditionNames},
        style \in 1..2}

InitFilter ==
    /\ InitServices
    /\ seat_analysis = {}
    /\ inserted = 0
    /\ lastCall = NoCall
    /\ result = <<>>
    /\ holdingData = <<>>
    /\ seatData = <<>>
    /\ \E k \in 1..MaxFilterSeed :
          /\ marketData = WeightedContracts(k)
          /\ realLongShortData = RealData(k)
          /\ netLongShortData = NetData(k)

ExecuteFilter(params) ==
    /\ result' = executeFilter(marketData, realLongShortData, netLongShortData, params)
    /\ lastCall' = [op |-> "executeFilter", params |-> params]
    /\ UNCHANGED <<marketData, holdingData, seatData, seat_analysis, inserted,
                   realLongShortData, netLongShortData, serviceVars>>

NextFilter ==
    \/ \E params \in FilterInputs : ExecuteFilter(params)

SpecFilter == InitFilter /\ [][NextFilter]_vars

-----------------------------------------------------------------------------
(* Properties of the filter *)

\* the nine conditions in evaluation order: parameters, the type listed for
\* a match, and the weight
ConditionParams(params) ==
    << params.priceCondition, params.realCompare, params.netCompare,
       params.realLongExtreme, params.realShortExtreme, params.realDiffExtreme,
       params.netLongExtreme, params.netShortExtreme, params.netDiffExtreme >>

ConditionTypes ==
    << "price-condition", "real-compare", "net-compare", "real-extreme", "real-extreme",
       "real-diff-extreme", "net-extreme", "net-extreme", "net-diff-extreme" >>

ConditionWeights == << 10, 15, 15, 12, 12, 12, 12, 12, 12 >>

ExtremeValueKeys ==
    << "real_long", "real_short", "real_diff", "net_long", "net_short", "net_diff" >>

\* the weighted contracts of a commodity, latest day first
LatestFirst(c) ==
    LET own == {i \in 1..Len(marketData) : marketData[i].commodity_id = c}
        Later(i) == {j \in own : \/ marketData[j].trade_date > marketData[i].trade_date
                                 \/ /\ marketData[j].trade_date = marketData[i].trade_date
                                    /\ j < i}
    IN  [p \in 1..Cardinality(own) |->
            marketData[CHOOSE i \in own : Cardinality(Later(i)) = p - 1]]

\* the n-th condition is enabled and the commodity satisfies it
Satisfied(c, n) ==
    LET p == ConditionParams(lastCall.params)[n]
    IN  /\ IsEnabled(p)
        /\ CASE n = 1 -> checkPriceCondition(LatestFirst(c), p.days, p.type)
             [] n = 2 -> checkRealLongShortCompare(realLongShortData[c], p.longPeriod,
                                                   p.shortPeriod, p.operator)
             [] n = 3 -> checkNetLongShortCompare(netLongShortData[c], p.longPeriod,
                                                  p.shortPeriod, p.operator)
             [] n \in 4..6 -> checkExtremeCondition(realLongShortData[c],
                                                    ExtremeValueKeys[n - 3],
                                                    p.period, p.days, p.type)
             [] n \in 7..9 -> checkExtremeCondition(netLongShortData[c],
                                                    ExtremeValueKeys[n - 3],
                                                    p.period, p.days, p.type)

SatisfiedBy(c) == {n \in 1..9 : Satisfied(c, n)}

\* C19: for every commodity in the result of executeFilter, score is the sum
\* of the fixed weights of the enabled conditions that were satisfied (price
\* condition 10, real-compare 15, net-compare 15, each extremum condition 12)
\* and match_conditions lists exactly those conditions, once each, in
\* evaluation order
C19_ScoreAndMatches ==
    Called("executeFilter") =>
        \A r \in 1..Len(result) :
            LET sat == SatisfiedBy(result[r].commodity_id)
            IN  /\ result[r].score = SumOver(sat, ConditionWeights)
                /\ Len(result[r].match_conditions) = Cardinality(sat)
                /\ \A n \in sat :
                      result[r].match_conditions[1 + Cardinality({m \in sat : m < n})]
                        = ConditionTypes[n]

\* a commodity that satisfies the price condition and real-compare: score 25
C19_Witness ==
    /\ Called("executeFilter")
    /\ \E r \in 1..Len(result) :
          /\ result[r].score = 25
          /\ result[r].match_conditions = << "price-condition", "real-compare" >>

\* the commodities executeFilter evaluates
Evaluated == {marketData[i].commodity_id : i \in 1..Len(marketData)}

\* C20: the result of executeFilter is exactly the set of the evaluated
\* commodities for which at least one enabled condition is satisfied (a
\* commodity without a match never appears), each once, listed with scores
\* non-increasing
C20_MatchedSortedByScore ==
    Called("executeFilter") =>
        /\ {result[r].commodity_id : r \in 1..Len(result)}
             = {c \in Evaluated : SatisfiedBy(c) # {}}
        /\ Len(result) = Cardinality({c \in Evaluated : SatisfiedBy(c) # {}})
        /\ \A r \in 1..Len(result) : Len(result[r].match_conditions) > 0
        /\ \A r \in 1..(Len(result) - 1) : result[r].score >= result[r + 1].score

\* the place of a commodity in the order of evaluation
FirstSeen(c) ==
    CHOOSE i \in 1..Len(marketData) :
        /\ marketData[i].commodity_id = c
        /\ \A j \in 1..(i - 1) : marketData[j].commodity_id # c

\* two commodities listed against the order of their evaluation, the higher
\* score first, and a third one without a match left out
C20_Witness ==
    /\ Called("executeFilter")
    /\ Len(result) = 2
    /\ Cardinality(Evaluated) = 3
    /\ result[1].score > result[2].score
    /\ FirstSeen(result[1].commodity_id) > FirstSeen(result[2].commodity_id)

-----------------------------------------------------------------------------
(* IndexedDBService: the market_data, holding_raw and weighted_contracts   *)
(* object stores, and NewDatabaseService.processRawData                    *)

\* keyPath ['trade_date', 'contract_id'] of market_data
MarketKeyOf(row) == <<row.trade_date, row.contract_id>>

\* keyPath ['trade_date', 'commodity_id'] of weighted_contracts
WeightedKeyOf(row) == <<row.trade_date, row.commodity_id>>

RECURSIVE insertMarketData(_, _)
\* one readwrite transaction on market_data that puts every record
insertMarketData(store, records) ==
    IF records = <<>> THEN store
    ELSE insertMarketData({r \in store : MarketKeyOf(r) # MarketKeyOf(Head(records))}
                              \cup {Head(records)},
                          Tail(records))

\* one readwrite transaction on holding_raw that puts every record: the key
\* is the autoIncrement id, so every record becomes a new row
insertHoldingRaw(store, records) == store \o records

RECURSIVE insertWeightedContracts(_, _)
\* one readwrite transaction on weighted_contracts that puts every record
insertWeightedContracts(store, records) ==
    IF records = <<>> THEN store
    ELSE insertWeightedContracts(
             {r \in store : WeightedKeyOf(r) # WeightedKeyOf(Head(records))}
                 \cup {Head(records)},
             Tail(records))

\* the holdings read back from the holding_raw store
holdingsOfStore(holdingRecords, stored) == stored

\* the holdings the seat analysis is calculated from: the array passed in
holdingsToAnalyse(holdingRecords, stored) == holdingRecords

\* the four stores
Database ==
    [market_data |-> market_data, holding_raw |-> holding_raw,
     weighted_contracts |-> weighted_contracts, seat_analysis |-> seat_analysis]

\* NewDatabaseService.processRawData: the stores after the four inserts, and
\* the counts it returns
processRawData(db, marketRecords, holdingRecords, tradeDate) ==
    LET market == insertMarketData(db.market_data, marketRecords)
        raw == insertHoldingRaw(db.holding_raw, holdingRecords)
        weightedContracts == batchCalculateWeightedContracts(marketRecords, tradeDate)
        weighted == insertWeightedContracts(db.weighted_contracts, weightedContracts)
        seatAnalysisData ==
            batchCalculateSeatAnalysis(holdingsToAnalyse(holdingRecords, raw), tradeDate)
        seats == insertSeatAnalysis(db.seat_analysis, seatAnalysisData)
    IN  [db |-> [market_data |-> market, holding_raw |-> raw,
                 weighted_contracts |-> weighted, seat_analysis |-> seats],
         marketInserted |-> Len(marketRecords),
         holdingInserted |-> Len(holdingRecords),
         weightedInserted |-> Len(weightedContracts),
         seatAnalysisInserted |-> Len(seatAnalysisData)]

RECURSIVE WeightedInKeyOrder(_)
\* the rows of weighted_contracts in the order of their keys
WeightedInKeyOrder(store) ==
    IF store = {} THEN <<>>
    ELSE LET first == CHOOSE r \in store :
                          \A o \in store \ {r} :
                             \/ r.trade_date < o.trade_date
                             \/ /\ r.trade_date = o.trade_date
                                /\ StrLess(r.commodity_id, o.commodity_id)
         IN  <<first>> \o WeightedInKeyOrder(store \ {first})

\* IndexedDBService.getWeightedContracts; an absent parameter is falsy: the
\* empty string, date 0, limit 0
getWeightedContracts(store, params) ==
    LET Exact(r) == r.trade_date = params.tradeDate /\ r.commodity_id = params.commodityId
        OnDate(r) == r.trade_date = params.tradeDate
        OfCommodity(r) == r.commodity_id = params.commodityId
        all == WeightedInKeyOrder(store)
        data == IF params.tradeDate # 0 /\ params.commodityId # <<>>
                THEN SelectSeq(all, Exact)
                ELSE IF params.tradeDate # 0 THEN SelectSeq(all, OnDate)
                ELSE IF params.commodityId # <<>> THEN SelectSeq(all, OfCommodity)
                ELSE all
    IN  IF params.limit # 0 /\ params.limit > 0 THEN Slice0(data, params.limit) ELSE data

-----------------------------------------------------------------------------
(* Recomputation of a day: the raw batches that arrive *)

MaxProcess == 2

\* the market records of a day as they arrive, and as they arrive again
\* after a correction (one contract fewer, another open interest)
MarketBatches ==
    { << Quote(1, I2401, 900, 1100, 800, 1000, 1001, 5, 100),
         Quote(1, I2405, 1900, 2100, 1800, 2000, 2002, 7, 300),
         Quote(1, M2401, 700, 750, 650, 725, 730, 1, 50) >>,
      << Quote(1, I2401, 900, 1100, 800, 1000, 1001, 5, 400),
         Quote(1, I2405, 1900, 2100, 1800, 2000, 2002, 7, 300) >>,
      << Quote(2, I2401, 1000, 1200, 900, 1100, 1150, 3, 700) >> }

\* the seat holdings of a day as they arrive, and as they arrive again
\* after a correction (seat B and commodity M are gone)
HoldingBatches ==
    { << Holding(1, I2401, <<"A">>, 3, 1, 1, 0),
         Holding(1, I2405, <<"A">>, 1, 2, 0, 2),
         Holding(1, I2401, <<"B">>, 1, 3, -1, 1),
         Holding(1, M2401, <<"D">>, 2, 6, 1, 3) >>,
      << Holding(1, I2401, <<"A">>, 4, 1, 2, 0),
         Holding(1, I2405, <<"C">>, 5, 3, 2, 2) >>,
      << Holding(2, I2401, <<"A">>, 0, 2, -3, 1) >> }

InitStore ==
    /\ InitCommon
    /\ marketData = <<>>
    /\ holdingData = <<>>
    /\ seatData = <<>>

\* how often in a row the same processRawData call has now been made
TimesInARow(market, holdings, d) ==
    IF /\ lastCall.op = "processRawData"
       /\ lastCall.marketData = market
       /\ lastCall.holdingData = holdings
       /\ lastCall.tradeDate = d
    THEN lastCall.times + 1
    ELSE 1

ProcessRawData(market, holdings, d) ==
    /\ inserted < MaxProcess
    /\ LET out == processRawData(Database, market, holdings, d)
       IN  /\ market_data' = out.db.market_data
           /\ holding_raw' = out.db.holding_raw
           /\ weighted_contracts' = out.db.weighted_contracts
           /\ seat_analysis' = out.db.seat_analysis
           /\ result' = [marketInserted |-> out.marketInserted,
                         holdingInserted |-> out.holdingInserted,
                         weightedInserted |-> out.weightedInserted,
                         seatAnalysisInserted |-> out.seatAnalysisInserted]
    /\ lastCall' = [op |-> "processRawData", marketData |-> market,
                    holdingData |-> holdings, tradeDate |-> d,
                    times |-> TimesInARow(market, holdings, d)]
    /\ inserted' = inserted + 1
    /\ UNCHANGED <<marketData, holdingData, seatData, realLongShortData,
                   netLongShortData, cache, now, calls, status, runs>>

\* a reader of seat_analysis: one readonly transaction
ReadSeatAnalysis(params) ==
    /\ result' = getSeatAnalysis(seat_analysis, params)
    /\ lastCall' = [op |-> "getSeatAnalysis", params |-> params]
    /\ UNCHANGED <<marketData, holdingData, seatData, seat_analysis, inserted,
                   realLongShortData, netLongShortData, serviceVars>>

\* a reader of weighted_contracts: one readonly transaction
ReadWeightedContracts(d) ==
    /\ result' = getWeightedContracts(weighted_contracts,
                                       [commodityId |-> <<>>, tradeDate |-> d, limit |-> 0])
    /\ lastCall' = [op |-> "getWeightedContracts", tradeDate |-> d]
    /\ UNCHANGED <<marketData, holdingData, seatData, seat_analysis, inserted,
                   realLongShortData, netLongShortData, serviceVars>>

NextStore ==
    \/ \E market \in MarketBatches, holdings \in HoldingBatches, d \in TradeDates :
          ProcessRawData(market, holdings, d)
    \/ \E params \in QueryParams : ReadSeatAnalysis(params)
    \/ \E d \in TradeDates : ReadWeightedContracts(d)

SpecStore == InitStore /\ [][NextStore]_vars

-----------------------------------------------------------------------------
(* Properties of the recomputation *)

\* the rows of a derived table for a day
OnDay(store, d) == {r \in store : r.trade_date = d}

\* C21: processing the same market records and holdings of a day a second
\* time leaves weighted_contracts and seat_analysis exactly as the first
\* processing left them
C21_Idempotent ==
    [][(/\ inserted' = inserted + 1
        /\ lastCall'.op = "processRawData"
        /\ lastCall'.times > 1)
       => /\ weighted_contracts' = weighted_contracts
          /\ seat_analysis' = seat_analysis]_vars

\* the same batches have been processed twice in a row, and both derived
\* tables hold rows of that day
C21_Witness ==
    /\ Called("processRawData")
    /\ lastCall.times = 2
    /\ OnDay(weighted_contracts, lastCall.tradeDate) # {}
    /\ OnDay(seat_analysis, lastCall.tradeDate) # {}
    /\ Len(holding_raw) = 2 * Len(lastCall.holdingData)

\* C22: after a day is recomputed, the rows stored for that day in
\* seat_analysis and weighted_contracts are exactly the rows calculated from
\* the new inputs
C22_FullyReplaced ==
    Called("processRawData") =>
        /\ OnDay(seat_analysis, lastCall.tradeDate)
             = RowsOf(batchCalculateSeatAnalysis(lastCall.holdingData,
                                                 lastCall.tradeDate))
        /\ OnDay(weighted_contracts, lastCall.tradeDate)
             = RowsOf(batchCalculateWeightedContracts(lastCall.marketData,
                                                      lastCall.tradeDate))

-----------------------------------------------------------------------------
(* MemoryCache (dataAccessService.ts): a Map from key to item, kept as the *)
(* sequence of its items in insertion order                                *)

\* the place of the key's item in the Map, 0 when the Map has no such key
EntryIndex(entries, key) ==
    IF \E i \in 1..Len(entries) : entries[i].key = key
    THEN CHOOSE i \in 1..Len(entries) : entries[i].key = key
    ELSE 0

\* Map.delete(key)
MapDelete(entries, key) ==
    LET HasOtherKey(e) == e.key # key
    IN  SelectSeq(entries, HasOtherKey)

\* Map.set(key, item): a known key keeps its place, a new key goes last
MapSetItem(entries, item) ==
    LET i == EntryIndex(entries, item.key)
    IN  IF i = 0 THEN Append(entries, item)
        ELSE [entries EXCEPT ![i] = item]

\* now - item.timestamp > ttl
IsExpired(c, item, t) == t - item.timestamp > c.config.ttl

\* Math.floor(maxSize * 0.2)
deleteCount(maxSize) == maxSize \div 5

\* MemoryCache.cleanup at time t
MemoryCache_cleanup(c, t) ==
    LET Live(e) == ~IsExpired(c, e, t)
        live == SelectSeq(c.cache, Live)
        \* sort((a, b) => a.timestamp - b.timestamp): oldest first
        sortedItems == SortDescending(live, [i \in 1..Len(live) |-> -live[i].timestamp])
        n == Min(deleteCount(c.config.maxSize), Len(sortedItems))
        oldest == {sortedItems[i].key : i \in 1..n}
        Kept(e) == e.key \notin oldest
    IN  [c EXCEPT !.cache = IF Len(live) >= c.config.maxSize
                            THEN SelectSeq(live, Kept)
                            ELSE live]

\* MemoryCache.set(key, data) at time t
MemoryCache_set(c, key, data, t) ==
    LET cleaned == IF Len(c.cache) >= c.config.maxSize
                   THEN MemoryCache_cleanup(c, t)
                   ELSE c
    IN  [cleaned EXCEPT !.cache =
            MapSetItem(cleaned.cache, [data |-> data, timestamp |-> t, key |-> key])]

\* MemoryCache.get(key) at time t: the cache afterwards and what is returned
MemoryCache_get(c, key, t) ==
    LET i == EntryIndex(c.cache, key)
    IN  IF i = 0 THEN [cache |-> c, value |-> Null]
        ELSE IF IsExpired(c, c.cache[i], t)
        THEN [cache |-> [c EXCEPT !.cache = MapDelete(c.cache, key)], value |-> Null]
        ELSE [cache |-> c, value |-> c.cache[i].data]

\* MemoryCache.delete(key): the cache afterwards and what is returned
MemoryCache_delete(c, key) ==
    [cache |-> [c EXCEPT !.cache = MapDelete(c.cache, key)],
     value |-> EntryIndex(c.cache, key) # 0]

\* MemoryCache.clear()
MemoryCache_clear(c) == [c EXCEPT !.cache = <<>>]

-----------------------------------------------------------------------------
(* A MemoryCache of any configuration under set, get, delete and cleanup *)

MaxCacheSize == 5
MaxClock == 1

\* one key more than the largest cache can hold
CacheKeys == 1..(MaxCacheSize + 1)

CacheConfigs == {[ttl |-> 0, maxSize |-> m] : m \in 1..MaxCacheSize}

InitCache ==
    /\ market_data = {}
    /\ holding_raw = <<>>
    /\ weighted_contracts = {}
    /\ seat_analysis = {}
    /\ inserted = 0
    /\ marketData = <<>>
    /\ holdingData = <<>>
    /\ seatData = <<>>
    /\ realLongShortData = <<>>
    /\ netLongShortData = <<>>
    /\ calls = <<>>
    /\ status = InitialStatus
    /\ runs = <<>>
    /\ now = 0
    /\ lastCall = NoCall
    /\ result = <<>>
    /\ \E config \in CacheConfigs : cache = NewMemoryCache(config)

\* set of a key the cache holds, or of one of the first keys it does not
CacheSet(key) ==
    /\ key <= Len(cache.cache) + 1 \/ EntryIndex(cache.cache, key) # 0
    /\ cache' = MemoryCache_set(cache, key, key, now)
    /\ lastCall' = [op |-> "set"]
    /\ result' = Null
    /\ UNCHANGED <<marketData, holdingData, seatData, seat_analysis, inserted,
                   realLongShortData, netLongShortData, market_data, holding_raw,
                   weighted_contracts, now, calls, status, runs>>

CacheGet(key) ==
    /\ cache' = MemoryCache_get(cache, key, now).cache
    /\ lastCall' = [op |-> "get"]
    /\ result' = MemoryCache_get(cache, key, now).value
    /\ UNCHANGED <<marketData, holdingData, seatData, seat_analysis, inserted,
                   realLongShortData, netLongShortData, market_data, holding_raw,
                   weighted_contracts, now, calls, status, runs>>

CacheDelete(key) ==
    /\ cache' = MemoryCache_delete(cache, key).cache
    /\ lastCall' = [op |-> "delete"]
    /\ result' = MemoryCache_delete(cache, key).value
    /\ UNCHANGED <<marketData, holdingData, seatData, seat_analysis, inserted,
                   realLongShortData, netLongShortData, market_data, holding_raw,
                   weighted_contracts, now, calls, status, runs>>

CacheCleanup ==
    /\ cache' = MemoryCache_cleanup(cache, now)
    /\ lastCall' = [op |-> "cleanup"]
    /\ result' = Null
    /\ UNCHANGED <<marketData, holdingData, seatData, seat_analysis, inserted,
                   realLongShortData, netLongShortData, market_data, holding_raw,
                   weighted_contracts, now, calls, status, runs>>

\* time passes
Tick ==
    /\ now < MaxClock
    /\ now' = now + 1
    /\ UNCHANGED <<marketData, holdingData, seatData, seat_analysis, inserted,
                   realLongShortData, netLongShortData, market_data, holding_raw,
                   weighted_contracts, cache, calls, status, runs, lastCall, result>>

NextCache ==
    \/ \E key \in CacheKeys : CacheSet(key)
    \/ \E key \in CacheKeys : CacheGet(key)
    \/ \E key \in CacheKeys : CacheDelete(key)
    \/ CacheCleanup
    \/ Tick

SpecCache == InitCache /\ [][NextCache]_vars

\* C27: the number of cached entries never exceeds the configured maxSize
C27_SizeBound == Len(cache.cache) <= cache.config.maxSize

-----------------------------------------------------------------------------
(* DataCalculator.validateMarketData / validateHoldingData, and the         *)
(* validated inserts of DataAccessService.  A raw record carries, in        *)
(* numbers, the names of its fields whose typeof is 'number'; a missing     *)
(* string is the empty string and a missing date is date 0, both falsy.     *)

validateMarketData(data) ==
    /\ data.trade_date # 0
    /\ data.contract_id # <<>>
    /\ data.secShortName # <<>>
    /\ "open_interest" \in data.numbers
    /\ data.open_interest >= 0

\* a validation of the key fields alone
validateHoldingKeys(data) ==
    /\ data.trade_date # 0
    /\ data.contract_id # <<>>
    /\ data.seat_name # <<>>

validateHoldingData(data) ==
    /\ data.trade_date # 0
    /\ data.contract_id # <<>>
    /\ data.seat_name # <<>>
    /\ "long_vol" \in data.numbers
    /\ "short_vol" \in data.numbers
    /\ "long_chg" \in data.numbers
    /\ "short_chg" \in data.numbers

RECURSIVE validationErrors(_, _)
\* the errors array after the forEach: one entry, with the position in the
\* batch, for every record that valid[i] rejects
validationErrors(records, valid) ==
    IF records = <<>> THEN <<>>
    ELSE LET n == Len(records)
             before == validationErrors(SubSeq(records, 1, n - 1), valid)
         IN  IF valid[n] THEN before
             ELSE Append(before, [index |-> n, record |-> records[n]])

\* validRecords after the forEach
validRecordsOf(records, valid) ==
    LET indices == SelectSeq([i \in 1..Len(records) |-> i], LAMBDA i : valid[i])
    IN  [k \in 1..Len(indices) |-> records[indices[k]]]

\* the key of a cache entry: generateCacheKey(prefix, params)
generateCacheKey(prefix, params) == [prefix |-> prefix, params |-> params]

\* DataAccessService.clearCacheByPrefix: key.startsWith(prefix); no prefix
\* in use starts another one
clearCacheByPrefix(c, prefix) ==
    LET Survives(e) == e.key.prefix # prefix
    IN  [c EXCEPT !.cache = SelectSeq(c.cache, Survives)]

\* DataAccessService.insertMarketData: the store and the cache afterwards,
\* the records passed to the store, and what is returned
DataAccessService_insertMarketData(db, c, records) ==
    LET valid == [i \in 1..Len(records) |-> validateMarketData(records[i])]
        validRecords == validRecordsOf(records, valid)
        errors == validationErrors(records, valid)
    IN  IF Len(records) = 0
        THEN [db |-> db, cache |-> c, passed |-> <<>>,
              result |-> [inserted |-> 0, failed |-> 0, errors |-> <<>>]]
        ELSE [db |-> [db EXCEPT !.market_data =
                         IF Len(validRecords) > 0
                         THEN insertMarketData(@, validRecords) ELSE @],
              cache |-> clearCacheByPrefix(c, "market_data"),
              passed |-> validRecords,
              result |-> [inserted |-> Len(validRecords),
                          failed |-> Len(errors), errors |-> errors]]

\* DataAccessService.insertHoldingRaw
DataAccessService_insertHoldingRaw(db, c, records) ==
    LET valid == [i \in 1..Len(records) |-> validateHoldingData(records[i])]
        validRecords == validRecordsOf(records, valid)
        errors == validationErrors(records, valid)
    IN  IF Len(records) = 0
        THEN [db |-> db, cache |-> c, passed |-> <<>>,
              result |-> [inserted |-> 0, failed |-> 0, errors |-> <<>>]]
        ELSE [db |-> [db EXCEPT !.holding_raw =
                         IF Len(validRecords) > 0
                         THEN insertHoldingRaw(@, validRecords) ELSE @],
              cache |-> clearCacheByPrefix(
                            clearCacheByPrefix(c, "holding_raw"), "seat_analysis"),
              passed |-> validRecords,
              result |-> [inserted |-> Len(validRecords),
                          failed |-> Len(errors), errors |-> errors]]

-----------------------------------------------------------------------------
(* The raw batches handed to the validated inserts *)

MaxBatch == 2

AllMarketNumbers ==
    {"open", "high", "low", "close", "settle", "volume", "open_interest"}

AllHoldingNumbers == {"long_vol", "short_vol", "long_chg", "short_chg"}

RawQuote(d, c, name, oi, numbers) ==
    [trade_date |-> d, contract_id |-> c, secShortName |-> name,
     open |-> 900, high |-> 1100, low |-> 800, close |-> 1000, settle |-> 1001,
     volume |-> 5, open_interest |-> oi, numbers |-> numbers]

RawHolding(d, c, seat, lv, sv, numbers) ==
    [trade_date |-> d, contract_id |-> c, secShortName |-> c, seat_name |-> seat,
     long_vol |-> lv, short_vol |-> sv, long_chg |-> 1, short_chg |-> 0,
     numbers |-> numbers]

\* two well-formed records; one without a name, one with a negative open
\* interest, one whose open interest is not a number
RawMarketUniverse ==
    { RawQuote(1, I2401, I2401, 100, AllMarketNumbers),
      RawQuote(1, M2401, M2401, 50, AllMarketNumbers),
      RawQuote(1, I2405, <<>>, 300, AllMarketNumbers),
      RawQuote(1, IC2401, IC2401, -1, AllMarketNumbers),
      RawQuote(1, I2405, I2405, 0, AllMarketNumbers \ {"open_interest"}) }

\* two well-formed records; one without a seat name, one whose long_vol is
\* not a number, one without a trade date
RawHoldingUniverse ==
    { RawHolding(1, I2401, <<"A">>, 3, 1, AllHoldingNumbers),
      RawHolding(1, I2401, <<"B">>, 1, 3, AllHoldingNumbers),
      RawHolding(1, I2401, <<>>, 4, 4, AllHoldingNumbers),
      RawHolding(1, I2405, <<"C">>, 0, 2, AllHoldingNumbers \ {"long_vol"}),
      RawHolding(0, M2401, <<"D">>, 2, 6, AllHoldingNumbers) }

InitInsert ==
    /\ InitCommon
    /\ seatData = <<>>
    /\ \/ /\ marketData \in SeqsUpTo(RawMarketUniverse, MaxBatch)
          /\ holdingData = <<>>
       \/ /\ marketData = <<>>
          /\ holdingData \in SeqsUpTo(RawHoldingUniverse, MaxBatch)

InsertMarketData ==
    /\ inserted < MaxInserts
    /\ LET out == DataAccessService_insertMarketData(Database, cache, marketData)
       IN  /\ market_data' = out.db.market_data
           /\ cache' = out.cache
           /\ result' = out.result
           /\ lastCall' = [op |-> "insertMarketData", records |-> marketData,
                           passed |-> out.passed]
    /\ inserted' = inserted + 1
    /\ UNCHANGED <<marketData, holdingData, seatData, seat_analysis,
                   realLongShortData, netLongShortData, holding_raw,
                   weighted_contracts, now, calls, status, runs>>

InsertHoldingRaw ==
    /\ inserted < MaxInserts
    /\ LET out == DataAccessService_insertHoldingRaw(Database, cache, holdingData)
       IN  /\ holding_raw' = out.db.holding_raw
           /\ cache' = out.cache
           /\ result' = out.result
           /\ lastCall' = [op |-> "insertHoldingRaw", records |-> holdingData,
                           passed |-> out.passed]
    /\ inserted' = inserted + 1
    /\ UNCHANGED <<marketData, holdingData, seatData, seat_analysis,
                   realLongShortData, netLongShortData, market_data,
                   weighted_contracts, now, calls, status, runs>>

NextInsert ==
    \/ InsertMarketData
    \/ InsertHoldingRaw

SpecInsert == InitInsert /\ [][NextInsert]_vars

-----------------------------------------------------------------------------
(* Properties of the validated inserts *)

\* a market record lacks a required field or has no usable open interest
MarketInvalid(r) ==
    \/ r.trade_date = 0
    \/ r.contract_id = <<>>
    \/ r.secShortName = <<>>
    \/ "open_interest" \notin r.numbers
    \/ r.open_interest < 0

\* a holding lacks a required field or has a volume field that is no number
HoldingInvalid(r) ==
    \/ r.trade_date = 0
    \/ r.contract_id = <<>>
    \/ r.seat_name = <<>>
    \/ AllHoldingNumbers \ r.numbers # {}

\* the positions of the batch that are invalid
InvalidPositions ==
    {i \in 1..Len(lastCall.records) :
        IF Called("insertMarketData") THEN MarketInvalid(lastCall.records[i])
        ELSE HoldingInvalid(lastCall.records[i])}

\* C24: in the validated inserts every invalid record of the batch gets
\* exactly one error entry and is not passed to the store, every valid
\* record is passed to the store in batch order, and failed counts the
\* invalid records
C24_RejectedOneByOne ==
    (Called("insertMarketData") \/ Called("insertHoldingRaw")) =>
        LET records == lastCall.records
            validPositions == (1..Len(records)) \ InvalidPositions
            ErrorsOf(i) == {k \in 1..Len(result.errors) : result.errors[k].index = i}
        IN  /\ \A i \in InvalidPositions : Cardinality(ErrorsOf(i)) = 1
            /\ \A i \in validPositions : ErrorsOf(i) = {}
            /\ result.failed = Cardinality(InvalidPositions)
            /\ Len(result.errors) = result.failed
            /\ Len(lastCall.passed) = Cardinality(validPositions)
            /\ \A k \in 1..Len(lastCall.passed) :
                  \E i \in validPositions :
                     /\ lastCall.passed[k] = records[i]
                     /\ Cardinality({j \in validPositions : j < i}) = k - 1
            /\ result.inserted = Len(lastCall.passed)
            /\ IF Called("insertMarketData")
               THEN \A i \in validPositions : records[i] \in market_data
               ELSE \A i \in validPositions :
                       \E k \in 1..Len(holding_raw) : holding_raw[k] = records[i]

\* a batch of a valid and an invalid holding has been inserted: one error,
\* one row stored
C24_Witness ==
    /\ Called("insertHoldingRaw")
    /\ Len(lastCall.records) = 2
    /\ result.failed = 1
    /\ Len(holding_raw) = 1
    /\ \E i \in 1..2 : ~validateHoldingKeys(lastCall.records[i])

-----------------------------------------------------------------------------
(* DataAccessService: processRawData and the cached reads, step by step.   *)
(* A call in flight awaits one IndexedDB transaction; calls is kept in the *)
(* order in which the awaited transactions were created.  A transaction    *)
(* runs once no transaction created before it with an overlapping scope,   *)
(* one of the two readwrite, is still pending; the code after the await    *)
(* runs in the same task, up to the next transaction the call creates.     *)

\* the object store the transaction of a stage of processRawData is on
StageStore(pc) ==
    CASE pc = "insertMarketData" -> "market_data"
      [] pc = "insertHoldingRaw" -> "holding_raw"
      [] pc = "rawMarket" -> "market_data"
      [] pc = "rawHolding" -> "holding_raw"
      [] pc = "weighted" -> "weighted_contracts"
      [] pc = "seatAnalysis" -> "seat_analysis"

\* the two transactions cannot run at the same time
Conflicts(a, b) ==
    /\ a.store = b.store
    /\ a.mode = "readwrite" \/ b.mode = "readwrite"

\* the transaction of the i-th call may run
CanRun(i) == \A j \in 1..(i - 1) : ~Conflicts(calls[j], calls[i])

Remove(seq, i) == SubSeq(seq, 1, i - 1) \o SubSeq(seq, i + 1, Len(seq))

\* processRawData enters this.insertHoldingRaw: the stage it awaits next
\* and the cache, insertHoldingRaw having returned at once when it has
\* nothing to store
enterInsertHoldingRaw(db, c, holdingRecords) ==
    LET out == DataAccessService_insertHoldingRaw(db, c, holdingRecords)
    IN  IF Len(out.passed) > 0
        THEN [pc |-> "insertHoldingRaw", cache |-> c]
        ELSE [pc |-> "rawMarket", cache |-> out.cache]

\* processRawData enters this.insertMarketData
enterInsertMarketData(db, c, marketRecords, holdingRecords) ==
    LET out == DataAccessService_insertMarketData(db, c, marketRecords)
    IN  IF Len(out.passed) > 0
        THEN [pc |-> "insertMarketData", cache |-> c]
        ELSE enterInsertHoldingRaw(db, out.cache, holdingRecords)

\* what DataAccessService.processRawData returns
processRawDataResult(db, c, args) ==
    LET marketResult == DataAccessService_insertMarketData(db, c, args.marketData).result
        holdingResult == DataAccessService_insertHoldingRaw(db, c, args.holdingData).result
        processResult == processRawData(db, args.marketData, args.holdingData,
                                        args.tradeDate)
    IN  [marketInserted |-> marketResult.inserted,
         holdingInserted |-> holdingResult.inserted,
         weightedInserted |-> processResult.weightedInserted,
         seatAnalysisInserted |-> processResult.seatAnalysisInserted,
         errors |-> marketResult.errors \o holdingResult.errors]

\* one stage of DataAccessService.processRawData: its transaction and the
\* code after the await; pc = "done" when the call has returned
processRawDataStage(pc, db, c, args) ==
    CASE pc = "insertMarketData" ->
            LET out == DataAccessService_insertMarketData(db, c, args.marketData)
                next == enterInsertHoldingRaw(out.db, out.cache, args.holdingData)
            IN  [db |-> out.db, cache |-> next.cache, pc |-> next.pc]
      [] pc = "insertHoldingRaw" ->
            LET out == DataAccessService_insertHoldingRaw(db, c, args.holdingData)
            IN  [db |-> out.db, cache |-> out.cache, pc |-> "rawMarket"]
      [] pc = "rawMarket" ->
            [db |-> [db EXCEPT !.market_data = insertMarketData(@, args.marketData)],
             cache |-> c, pc |-> "rawHolding"]
      [] pc = "rawHolding" ->
            [db |-> [db EXCEPT !.holding_raw = insertHoldingRaw(@, args.holdingData)],
             cache |-> c, pc |-> "weighted"]
      [] pc = "weighted" ->
            [db |-> [db EXCEPT !.weighted_contracts =
                        insertWeightedContracts(@,
                            batchCalculateWeightedContracts(args.marketData,
                                                            args.tradeDate))],
             cache |-> c, pc |-> "seatAnalysis"]
      [] pc = "seatAnalysis" ->
            [db |-> [db EXCEPT !.seat_analysis =
                        insertSeatAnalysis(@,
                            batchCalculateSeatAnalysis(args.holdingData,
                                                       args.tradeDate))],
             cache |-> MemoryCache_clear(c), pc |-> "done"]

\* the query of getSeatTableData for the seat rows and for the prices
TableRange(params) ==
    [commodityId |-> params.commodityId, tradeDate |-> 0, seatName |-> <<>>,
     beginDate |-> params.tradeDate - FetchDays, endDate |-> params.tradeDate,
     limit |-> 0]

-----------------------------------------------------------------------------
(* The calls made on DataAccessService *)

\* a day's market records and holdings, some of them malformed
AccessMarketBatches ==
    { << RawQuote(1, I2401, I2401, 100, AllMarketNumbers),
         RawQuote(1, I2405, <<>>, 300, AllMarketNumbers) >>,
      << RawQuote(1, M2401, M2401, 50, AllMarketNumbers) >>,
      << >> }

AccessHoldingBatches ==
    { << RawHolding(1, I2401, <<"A">>, 3, 1, AllHoldingNumbers),
         RawHolding(1, I2401, <<>>, 4, 4, AllHoldingNumbers) >>,
      << RawHolding(1, I2401, <<"B">>, 1, 3, AllHoldingNumbers) >>,
      << RawHolding(1, I2401, <<>>, 2, 2, AllHoldingNumbers) >> }

SeatAnalysisQueries == {Params(<<"I">>, 1, <<>>, 0, 0, 0)}

SeatTableQueries == {[commodityId |-> <<"I">>, tradeDate |-> 1, limit |-> 0]}

IsRewrite(call) == call.op = "processRawData"

RewriteInFlight == \E i \in 1..Len(calls) : IsRewrite(calls[i])

ReadInFlight == \E i \in 1..Len(calls) : ~IsRewrite(calls[i])

InitAccess ==
    /\ InitCommon
    /\ marketData = <<>>
    /\ holdingData = <<>>
    /\ seatData = <<>>

\* processRawData is called: it runs up to its first await
ProcessRawDataStart(market, holdings, d) ==
    /\ inserted < MaxProcess
    /\ ~RewriteInFlight
    /\ LET next == enterInsertMarketData(Database, cache, market, holdings)
       IN  /\ cache' = next.cache
           /\ calls' = Append(calls,
                  [op |-> "processRawData", pc |-> next.pc,
                   store |-> StageStore(next.pc), mode |-> "readwrite",
                   args |-> [marketData |-> market, holdingData |-> holdings,
                             tradeDate |-> d]])
    /\ inserted' = inserted + 1
    /\ UNCHANGED <<marketData, holdingData, seatData, seat_analysis,
                   realLongShortData, netLongShortData, market_data, holding_raw,
                   weighted_contracts, now, status, runs, lastCall, result>>

\* the transaction processRawData awaits completes and the call goes on to
\* its next await, or returns
ProcessRawDataStep(i) ==
    /\ IsRewrite(calls[i])
    /\ CanRun(i)
    /\ \E call \in {calls[i]} :
       \E out \in {processRawDataStage(call.pc, Database, cache, call.args)} :
           /\ market_data' = out.db.market_data
           /\ holding_raw' = out.db.holding_raw
           /\ weighted_contracts' = out.db.weighted_contracts
           /\ seat_analysis' = out.db.seat_analysis
           /\ cache' = out.cache
           /\ IF out.pc = "done"
              THEN /\ calls' = Remove(calls, i)
                   /\ result' = processRawDataResult(Database, cache, call.args)
                   /\ lastCall' = [op |-> "DataAccessService.processRawData",
                                   marketData |-> call.args.marketData,
                                   holdingData |-> call.args.holdingData,
                                   tradeDate |-> call.args.tradeDate]
              ELSE /\ calls' = Append(Remove(calls, i),
                                      [call EXCEPT !.pc = out.pc,
                                                   !.store = StageStore(out.pc)])
                   /\ UNCHANGED <<lastCall, result>>
    /\ UNCHANGED <<marketData, holdingData, seatData, inserted,
                   realLongShortData, netLongShortData, now, status, runs>>

\* getSeatAnalysis is called with useCache: a hit returns the cached rows,
\* a miss awaits the store
GetSeatAnalysisStart(params) ==
    /\ ~ReadInFlight
    /\ LET got == MemoryCache_get(cache, generateCacheKey("seat_analysis", params), now)
       IN  /\ cache' = got.cache
           /\ \/ /\ got.value # Null
                 /\ result' = got.value.rows
                 /\ lastCall' = [op |-> "getSeatAnalysis", params |-> params,
                                 cached |-> TRUE]
                 /\ UNCHANGED calls
              \/ /\ got.value = Null
                 /\ calls' = Append(calls,
                        [op |-> "getSeatAnalysis", pc |-> "read",
                         store |-> "seat_analysis", mode |-> "readonly",
                         args |-> params])
                 /\ UNCHANGED <<lastCall, result>>
    /\ UNCHANGED <<marketData, holdingData, seatData, seat_analysis, inserted,
                   realLongShortData, netLongShortData, market_data, holding_raw,
                   weighted_contracts, now, status, runs>>

\* the store answers getSeatAnalysis: the rows are cached and returned
GetSeatAnalysisReturn(i) ==
    /\ calls[i].op = "getSeatAnalysis"
    /\ CanRun(i)
    /\ LET params == calls[i].args
       IN  /\ result' = getSeatAnalysis(seat_analysis, params)
           /\ cache' = MemoryCache_set(cache, generateCacheKey("seat_analysis", params),
                                       [rows |-> result'], now)
           /\ lastCall' = [op |-> "getSeatAnalysis", params |-> params,
                           cached |-> FALSE]
    /\ calls' = Remove(calls, i)
    /\ UNCHANGED <<marketData, holdingData, seatData, seat_analysis, inserted,
                   realLongShortData, netLongShortData, market_data, holding_raw,
                   weighted_contracts, now, status, runs>>

\* getSeatTableData is called with useCache: a hit returns the cached table,
\* a miss awaits the seat rows
GetSeatTableDataStart(params) ==
    /\ ~ReadInFlight
    /\ LET got == MemoryCache_get(cache, generateCacheKey("seat_table", params), now)
       IN  /\ cache' = got.cache
           /\ \/ /\ got.value # Null
                 /\ result' = got.value.rows
                 /\ lastCall' = [op |-> "getSeatTableData", params |-> params,
                                 cached |-> TRUE]
                 /\ UNCHANGED calls
              \/ /\ got.value = Null
                 /\ calls' = Append(calls,
                        [op |-> "getSeatTableData", pc |-> "seatAnalysis",
                         store |-> "seat_analysis", mode |-> "readonly",
                         args |-> params, seatAnalysisData |-> <<>>])
                 /\ UNCHANGED <<lastCall, result>>
    /\ UNCHANGED <<marketData, holdingData, seatData, seat_analysis, inserted,
                   realLongShortData, netLongShortData, market_data, holding_raw,
                   weighted_contracts, now, status, runs>>

\* the store answers with the seat rows: getSeatTableData awaits the prices
GetSeatTableDataSeats(i) ==
    /\ calls[i].op = "getSeatTableData"
    /\ calls[i].pc = "seatAnalysis"
    /\ CanRun(i)
    /\ calls' = Append(Remove(calls, i),
           [calls[i] EXCEPT
               !.pc = "prices", !.store = "weighted_contracts",
               !.seatAnalysisData =
                   getSeatAnalysis(seat_analysis, TableRange(calls[i].args))])
    /\ UNCHANGED <<marketData, holdingData, seatData, seat_analysis, inserted,
                   realLongShortData, netLongShortData, market_data, holding_raw,
                   weighted_contracts, cache, now, status, runs, lastCall, result>>

\* the store answers with the prices: the table is computed, cached and
\* returned
GetSeatTableDataPrices(i) ==
    /\ calls[i].op = "getSeatTableData"
    /\ calls[i].pc = "prices"
    /\ CanRun(i)
    /\ LET params == calls[i].args
           priceData == getWeightedContracts(weighted_contracts, TableRange(params))
       IN  /\ result' = getSeatTableData(calls[i].seatAnalysisData, priceData,
                                         params.tradeDate, params.limit)
           /\ cache' = MemoryCache_set(cache, generateCacheKey("seat_table", params),
                                       [rows |-> result'], now)
           /\ lastCall' = [op |-> "getSeatTableData", params |-> params,
                           cached |-> FALSE]
    /\ calls' = Remove(calls, i)
    /\ UNCHANGED <<marketData, holdingData, seatData, seat_analysis, inserted,
                   realLongShortData, netLongShortData, market_data, holding_raw,
                   weighted_contracts, now, status, runs>>

NextAccess ==
    \/ \E market \in AccessMarketBatches, holdings \in AccessHoldingBatches :
          ProcessRawDataStart(market, holdings, 1)
    \/ \E i \in 1..Len(calls) : ProcessRawDataStep(i)
    \/ \E params \in SeatAnalysisQueries : GetSeatAnalysisStart(params)
    \/ \E i \in 1..Len(calls) : GetSeatAnalysisReturn(i)
    \/ \E params \in SeatTableQueries : GetSeatTableDataStart(params)
    \/ \E i \in 1..Len(calls) : GetSeatTableDataSeats(i)
    \/ \E i \in 1..Len(calls) : GetSeatTableDataPrices(i)

SpecAccess == InitAccess /\ [][NextAccess]_vars

-----------------------------------------------------------------------------
(* Properties of DataAccessService *)

\* C25: once processRawData has returned, market_data and holding_raw hold
\* no record that fails validation, and every row of weighted_contracts and
\* seat_analysis can be calculated from the valid records of a batch alone
C25_NothingFromRejected ==
    lastCall.op = "DataAccessService.processRawData" =>
        /\ \A r \in market_data : validateMarketData(r)
        /\ \A k \in 1..Len(holding_raw) : validateHoldingData(holding_raw[k])
        /\ \A row \in weighted_contracts :
              \E market \in AccessMarketBatches :
                 row \in RowsOf(batchCalculateWeightedContracts(
                            SelectSeq(market, validateMarketData), row.trade_date))
        /\ \A row \in seat_analysis :
              \E holdings \in AccessHoldingBatches :
                 row \in RowsOf(batchCalculateSeatAnalysis(
                            SelectSeq(holdings, validateHoldingData), row.trade_date))

-----------------------------------------------------------------------------
(* UpdateService: the scheduler tick, the manual update and executeUpdate, *)
(* one step per await.  The service writes the stores through the calls    *)
(* insertMarketData, insertWeightedContracts, insertHoldingRaw and         *)
(* insertSeatAnalysis, each one transaction.  What a tick reads from the   *)
(* wall clock is an input of the tick, counted in hours.                   *)

MaxRuns == 1
MaxCommodities == 2

\* new Date() as executeUpdate formats it
Today == 1

OneHour == 1

\* the head of the commodity list that holds I, IC and M, in its order
commodityList ==
    SubSeq(<< <<"I">>, <<"I", "C">>, <<"M">> >>, 1, Min(MaxCommodities, 3))

\* the message of the error executeUpdate throws while an update runs
AlreadyRunning == [message |-> "update already running"]

ApiError == [message |-> "request failed"]

\* the contract the exchange lists for a commodity
Ticker(commodityId) == commodityId \o <<"2", "4", "0", "1">>

\* what getFuturesDailyQuotes answers for a commodity on the n-th update of
\* the day, the updates counted from 0: no open interest yet for IC on the
\* first, no quote at all for M
FuturesDailyQuotes(commodityId, n) ==
    IF commodityId = <<"M">> THEN <<>>
    ELSE << [tradeDate |-> Today, ticker |-> Ticker(commodityId),
             secShortName |-> Ticker(commodityId),
             openPrice |-> 900, highestPrice |-> 1100, lowestPrice |-> 800,
             closePrice |-> 1000 + n, settlePrice |-> 1001, turnoverVol |-> 5 * (n + 1),
             openInt |-> IF commodityId = <<"I">> THEN 100 * (n + 1) ELSE 200 * n] >>

\* what getMemberRanking answers: seat B leaves and seat C enters the
\* ranking of I after the first update
MemberRanking(commodityId, n) ==
    LET Item(seat, vol) ==
            [tradeDate |-> Today, ticker |-> Ticker(commodityId),
             secShortName |-> Ticker(commodityId), partyName |-> seat,
             vol |-> vol, volChg |-> 1]
    IN  IF commodityId = <<"I">>
        THEN << Item(<<"A">>, 2 + n), Item(IF n = 0 THEN <<"B">> ELSE <<"C">>, 1) >>
        ELSE << Item(<<"A">>, 2 * n + 1) >>

\* marketResponse.data.map(...)
marketRecordsOf(data) ==
    [k \in 1..Len(data) |->
        [trade_date |-> data[k].tradeDate, contract_id |-> data[k].ticker,
         secShortName |-> data[k].secShortName,
         open |-> data[k].openPrice, high |-> data[k].highestPrice,
         low |-> data[k].lowestPrice, close |-> data[k].closePrice,
         settle |-> data[k].settlePrice, volume |-> data[k].turnoverVol,
         open_interest |-> data[k].openInt]]

\* holdingResponse.data.map(...): the ranking has no short side
holdingRecordsOf(data) ==
    [k \in 1..Len(data) |->
        [trade_date |-> data[k].tradeDate, contract_id |-> data[k].ticker,
         secShortName |-> data[k].secShortName, seat_name |-> data[k].partyName,
         long_vol |-> data[k].vol, long_chg |-> data[k].volChg,
         short_vol |-> 0, short_chg |-> 0]]

\* DataCalculator.calculateWeightedContract(marketRecords, commodityId, today)
\* for the k-th commodity on the n-th update
weighted ==
    [k \in 1..Len(commodityList) |-> [n \in 0..MaxRuns |->
        calculateWeightedContract(
            marketRecordsOf(FuturesDailyQuotes(commodityList[k], n)),
            commodityList[k], Today)]]

\* DataCalculator.calculateSeatAnalysis(holdingRecords, commodityId, today)
\* for the k-th commodity on the n-th update
seatAnalysis ==
    [k \in 1..Len(commodityList) |-> [n \in 0..MaxRuns |->
        calculateSeatAnalysis(
            holdingRecordsOf(MemberRanking(commodityList[k], n)),
            commodityList[k], Today)]]

neverRunning(s) == FALSE

\* if (this.status.isRunning) throw ...
alreadyRunning(s) == s.isRunning

statusStillRunning(s, error) == [s EXCEPT !.error = error]

\* updateStatus of the outer catch of executeUpdate
statusAfterFailure(s, error) == [s EXCEPT !.isRunning = FALSE, !.error = error]

\* shouldUpdate(now), inWindow telling whether now is within an update
\* window and timeSinceLastUpdate being now - lastUpdate
shouldUpdate(s, inWindow, timeSinceLastUpdate) ==
    /\ inWindow
    /\ s.lastUpdate # Null => ~(timeSinceLastUpdate < OneHour)

\* executeUpdate up to its first await; inserted counts the updates that
\* have ended
NewRun ==
    [pc |-> "init", i |-> 0, n |-> inserted + 1,
     updatedContracts |-> 0, updatedHoldings |-> 0, processedCommodities |-> 0,
     prior |-> [seat_analysis |-> seat_analysis,
                weighted_contracts |-> weighted_contracts]]

\* the run as the loop moves on to the next commodity, or leaves the loop
nextCommodity(run) ==
    IF run.i < Len(commodityList)
    THEN [run EXCEPT !.i = run.i + 1, !.pc = "getFuturesDailyQuotes"]
    ELSE [run EXCEPT !.pc = "setLastUpdateTime"]

\* the run after the await it is at has settled, ok telling whether the
\* promise was fulfilled; pc = "done" and pc = "failed" end the run
afterAwait(run, ok) ==
    LET commodityId == commodityList[run.i]
        marketRecords == marketRecordsOf(FuturesDailyQuotes(commodityId, run.n))
        holdingRecords == holdingRecordsOf(MemberRanking(commodityId, run.n))
        processed == [run EXCEPT !.processedCommodities = @ + 1, !.pc = "delay"]
    IN  CASE run.pc = "init" ->
                IF ok THEN nextCommodity(run) ELSE [run EXCEPT !.pc = "failed"]
          [] run.pc = "getFuturesDailyQuotes" ->
                IF ~ok THEN nextCommodity(run)
                ELSE IF Len(marketRecords) > 0
                THEN [run EXCEPT !.pc = "insertMarketData"]
                ELSE [run EXCEPT !.pc = "getMemberRanking"]
          [] run.pc = "insertMarketData" ->
                [run EXCEPT
                    !.updatedContracts = @ + Len(marketRecords),
                    !.pc = IF weighted[run.i][run.n] # Null
                           THEN "insertWeightedContracts" ELSE "getMemberRanking"]
          [] run.pc = "insertWeightedContracts" ->
                [run EXCEPT !.pc = "getMemberRanking"]
          [] run.pc = "getMemberRanking" ->
                IF ~ok THEN nextCommodity(run)
                ELSE IF Len(holdingRecords) > 0
                THEN [run EXCEPT !.pc = "insertHoldingRaw"]
                ELSE processed
          [] run.pc = "insertHoldingRaw" ->
                IF Len(seatAnalysis[run.i][run.n]) > 0
                THEN [run EXCEPT !.updatedHoldings = @ + Len(holdingRecords),
                                 !.pc = "insertSeatAnalysis"]
                ELSE [processed EXCEPT !.updatedHoldings = @ + Len(holdingRecords)]
          [] run.pc = "insertSeatAnalysis" -> processed
          [] run.pc = "delay" -> nextCommodity(run)
          [] run.pc = "setLastUpdateTime" ->
                [run EXCEPT !.pc = IF ok THEN "done" ELSE "failed"]

\* the stores after the transaction the run awaits
storesAfterAwait(db, run) ==
    LET commodityId == commodityList[run.i]
        marketRecords == marketRecordsOf(FuturesDailyQuotes(commodityId, run.n))
        holdingRecords == holdingRecordsOf(MemberRanking(commodityId, run.n))
    IN  CASE run.pc = "insertMarketData" ->
                [db EXCEPT !.market_data = insertMarketData(@, marketRecords)]
          [] run.pc = "insertWeightedContracts" ->
                [db EXCEPT !.weighted_contracts =
                    insertWeightedContracts(@, <<weighted[run.i][run.n]>>)]
          [] run.pc = "insertHoldingRaw" ->
                [db EXCEPT !.holding_raw = insertHoldingRaw(@, holdingRecords)]
          [] run.pc = "insertSeatAnalysis" ->
                [db EXCEPT !.seat_analysis =
                    insertSeatAnalysis(@, seatAnalysis[run.i][run.n])]
          [] OTHER -> db

\* the awaits of the network and of the two calls around the loop can
\* reject; a transaction on the stores completes
CanReject(pc) ==
    pc \in {"init", "getFuturesDailyQuotes", "getMemberRanking", "setLastUpdateTime"}

\* what executeUpdate resolves with
updateResponse(run, t) ==
    [updated_contracts |-> run.updatedContracts,
     updated_holdings |-> run.updatedHoldings,
     processed_commodities |-> run.processedCommodities,
     timestamp |-> t]

RECURSIVE storesAfterUpdate(_, _, _)
\* the stores after the n-th update has written its first k commodities
\* over db without a failure
storesAfterUpdate(db, n, k) ==
    IF k = 0 THEN db
    ELSE LET before == storesAfterUpdate(db, n, k - 1)
             marketRecords == marketRecordsOf(FuturesDailyQuotes(commodityList[k], n))
         IN  [market_data |-> insertMarketData(before.market_data, marketRecords),
              holding_raw |->
                  insertHoldingRaw(before.holding_raw,
                      holdingRecordsOf(MemberRanking(commodityList[k], n))),
              weighted_contracts |->
                  IF Len(marketRecords) > 0 /\ weighted[k][n] # Null
                  THEN insertWeightedContracts(before.weighted_contracts,
                                               <<weighted[k][n]>>)
                  ELSE before.weighted_contracts,
              seat_analysis |-> insertSeatAnalysis(before.seat_analysis,
                                                   seatAnalysis[k][n])]

EmptyDatabase ==
    [market_data |-> {}, holding_raw |-> <<>>, weighted_contracts |-> {},
     seat_analysis |-> {}]

\* the service is constructed over the stores as the browser kept them:
\* empty, or as an earlier update of the day left them
InitUpdate ==
    /\ \E db \in {EmptyDatabase,
                   storesAfterUpdate(EmptyDatabase, 0, Len(commodityList))} :
          /\ market_data = db.market_data
          /\ holding_raw = db.holding_raw
          /\ weighted_contracts = db.weighted_contracts
          /\ seat_analysis = db.seat_analysis
    /\ cache = NewMemoryCache(DefaultCacheConfig)
    /\ now = 0
    /\ calls = <<>>
    /\ status = InitialStatus
    /\ runs = <<>>
    /\ inserted = 0
    /\ realLongShortData = <<>>
    /\ netLongShortData = <<>>
    /\ lastCall = NoCall
    /\ result = <<>>
    /\ marketData = <<>>
    /\ holdingData = <<>>
    /\ seatData = <<>>

\* executeUpdate is entered: it throws while an update runs, and runs up to
\* its first await otherwise
EnterExecuteUpdate(op) ==
    /\ inserted < MaxRuns
    /\ IF alreadyRunning(status)
       THEN /\ lastCall' = [op |-> op, running |-> status.isRunning,
                            started |-> FALSE, error |-> AlreadyRunning]
            /\ UNCHANGED <<status, runs>>
       ELSE /\ status' = [status EXCEPT !.isRunning = TRUE, !.error = Null,
                                        !.completed = 0]
            /\ runs' = Append(runs, NewRun)
            /\ lastCall' = [op |-> op, running |-> status.isRunning,
                            started |-> TRUE, error |-> Null]
    /\ UNCHANGED <<marketData, holdingData, seatData, seat_analysis, inserted,
                   realLongShortData, netLongShortData, market_data, holding_raw,
                   weighted_contracts, cache, now, calls, result>>

\* a tick of the scheduler
CheckAndUpdate(tradingDay, inWindow, timeSinceLastUpdate) ==
    IF ~status.isRunning /\ tradingDay
       /\ shouldUpdate(status, inWindow, timeSinceLastUpdate)
    THEN EnterExecuteUpdate("checkAndUpdate")
    ELSE /\ lastCall' = [op |-> "checkAndUpdate", running |-> status.isRunning,
                         started |-> FALSE, error |-> Null]
         /\ UNCHANGED <<marketData, holdingData, seatData, seat_analysis, inserted,
                        realLongShortData, netLongShortData, serviceVars, result>>

ManualUpdate == EnterExecuteUpdate("manualUpdate")

\* the await the k-th run is at settles and the run goes on to its next
\* await, or ends
ExecuteUpdateStep(k, ok) ==
    /\ k \in 1..Len(runs)
    /\ ok \/ CanReject(runs[k].pc)
    /\ \E run \in {afterAwait(runs[k], ok)} :
       \E db \in {storesAfterAwait(Database, runs[k])} :
          /\ market_data' = db.market_data
          /\ holding_raw' = db.holding_raw
          /\ weighted_contracts' = db.weighted_contracts
          /\ seat_analysis' = db.seat_analysis
          /\ CASE run.pc = "done" ->
                    /\ status' = [status EXCEPT !.isRunning = FALSE,
                                                !.lastUpdate = [time |-> now],
                                                !.completed = Len(commodityList)]
                    /\ runs' = Remove(runs, k)
                    /\ inserted' = inserted + 1
                    /\ lastCall' = [op |-> "executeUpdate", ok |-> TRUE,
                                    response |-> updateResponse(run, now)]
                    /\ UNCHANGED result
               [] run.pc = "failed" ->
                    /\ status' = statusAfterFailure(status, ApiError)
                    /\ runs' = Remove(runs, k)
                    /\ inserted' = inserted + 1
                    /\ lastCall' = [op |-> "executeUpdate", ok |-> FALSE,
                                    response |-> ApiError]
                    /\ UNCHANGED result
               [] OTHER ->
                    /\ status' = [status EXCEPT
                                     !.completed = IF run.i > 0 THEN run.i - 1 ELSE 0]
                    /\ runs' = [runs EXCEPT ![k] = run]
                    /\ UNCHANGED <<inserted, lastCall, result>>
    /\ UNCHANGED <<marketData, holdingData, seatData,
                   realLongShortData, netLongShortData, cache, now, calls>>

RunAdvances == \E k \in 1..Len(runs), ok \in BOOLEAN : ExecuteUpdateStep(k, ok)

NextUpdate ==
    \/ \E tradingDay \in BOOLEAN, inWindow \in BOOLEAN,
          timeSinceLastUpdate \in {0, OneHour} :
          CheckAndUpdate(tradingDay, inWindow, timeSinceLastUpdate)
    \/ ManualUpdate
    \/ RunAdvances
    \/ ReadSeatAnalysis(Params(<<>>, Today, <<>>, 0, 0, 0))

SpecUpdate == InitUpdate /\ [][NextUpdate]_vars

\* every await of a run settles: the requests of the API client and the
\* transactions on the stores complete or fail, and the timer of delay fires
SpecUpdateFair == SpecUpdate /\ WF_vars(RunAdvances)

-----------------------------------------------------------------------------
(* Properties of UpdateService *)

C28_SingleRun ==
    /\ Len(runs) <= 1
    /\ (lastCall.op \in {"checkAndUpdate", "manualUpdate"} /\ lastCall.running)
          => ~lastCall.started
    /\ (lastCall.op = "manualUpdate" /\ lastCall.running)
          => lastCall.error = AlreadyRunning

\* a manual update was requested while the update started by the scheduler
\* was writing the seat analysis of its second commodity
C28_Witness ==
    /\ lastCall.op = "manualUpdate"
    /\ lastCall.running
    /\ Len(runs) = 1
    /\ runs[1].pc = "insertSeatAnalysis"
    /\ runs[1].i = 2
    /\ status.isRunning

\* C29: an update that runs ends, and the service is then no longer running
C29_RunEnds == status.isRunning ~> ~status.isRunning

\* an update has ended without an error though it could not process every
\* commodity
C29_Witness ==
    /\ lastCall.op = "executeUpdate"
    /\ lastCall.ok
    /\ ~status.isRunning
    /\ status.error = Null
    /\ lastCall.response.processed_commodities < Len(commodityList)
    /\ Len(runs) = 0

-----------------------------------------------------------------------------
(* The position distribution of a fragmented day: the inputs of the pie    *)
(* chart, and days on which the position is spread evenly over many seats  *)

MaxFragments == 111

\* n seats of nearly equal positions, long and short in turn, each larger
\* than the one before
FragmentedSeats(n) ==
    [i \in 1..n |->
        Summary(1, <<"F", DigitChar(i \div 100), DigitChar((i \div 10) % 10),
                     DigitChar(i % 10)>>,
                (i % 2) * (1000 + i), ((i + 1) % 2) * (1000 + i), i, 0)]

InitFragmented ==
    /\ InitCommon
    /\ marketData = <<>>
    /\ holdingData = <<>>
    /\ seatData \in PieInputs \cup {FragmentedSeats(n) : n \in 0..MaxFragments}

SpecFragmented == InitFragmented /\ [][NextPie]_vars

\* C30: on a date on which some seat has a net position, the position
\* distribution has at least one entry, however evenly the position is
\* spread over the seats
C30_NeverEmpty ==
    Called("generatePieChartData") =>
        ((\E i \in DayIndices(lastCall.tradeDate) : seatData[i].net_vol # 0)
            => Len(result.holdingDistribution) >= 1)

\* more than 100 seats with nearly equal positions: each of the 10 reported
\* seats is below 1% and removed, and the "other" entry alone is left
C30_Witness ==
    /\ Called("generatePieChartData")
    /\ Cardinality(DayIndices(lastCall.tradeDate)) > 100
    /\ \A i \in DayIndices(lastCall.tradeDate) : AbsNetVol[i] > 1000
    /\ Len(result.holdingDistribution) = 1
    /\ result.holdingDistribution[1].name = Other

=============================================================================
